---- MODULE Spec2Model ----
(***************************************************************************)
(* State-machine model of the GST grievance resolution pipeline:           *)
(*   - LightweightKnowledgeGraph (load, find_related)                      *)
(*   - LocalRetrievalAgent, WebRetrievalAgent, TwitterRetrievalAgent,      *)
(*     LLMReasoningAgent                                                   *)
(*   - RetrievalOrchestratorAgent.process                                  *)
(*   - the compiled workflow driven by GSTGrievanceResolver.process_query  *)
(* Texts are sequences of one-character strings; scores and weights are    *)
(* integers in thousandths (0.15 is 150, 0.5 is 500, weight 1.0 is 1000).  *)
(***************************************************************************)
EXTENDS Integers, Sequences, FiniteSets, TLC

VARIABLES
    graph,          \* LightweightKnowledgeGraph.graph: [nodes, succ, weight]
    gphase,         \* where load() is: "nodes", "edges", then "loaded"
    related,        \* last find_related call: its arguments, the list collected and the result
    localCall,      \* last LocalRetrievalAgent.retrieve call: its inputs and result
    webCall,        \* last WebRetrievalAgent.retrieve call: its inputs, query sent and result
    twitterCall,    \* last TwitterRetrievalAgent.retrieve call: its inputs, query sent and result
    llmCall,        \* last LLMReasoningAgent.retrieve call: its inputs and result
    agents,         \* what the constructors left: clients and their answers, callbacks
    state,          \* the AgentState dict
    wpc,            \* where process_query is: the workflow node to run next
    frame,          \* last RetrievalOrchestratorAgent.process call: its input and outcome
    notified,       \* the progress values the callbacks received, in order
    result,         \* what process_query returned
    resolver_callback,  \* resolver.progress_callback of backend_server: the session its lambda is for
    active_sessions,            \* backend_server.active_sessions
    agent_progress,             \* backend_server.agent_progress
    pending_websocket_messages, \* backend_server.pending_websocket_messages: the messages of each queue
    websocket_connections,      \* the session ids backend_server.websocket_connections holds
    tasks,          \* the background tasks submit_query created: where each one is
    websocket_sent, \* the types of the messages each session's WebSocket was sent
    queues          \* the list objects get_pending_queue made, in order of creation

vars == <<graph, gphase, related, localCall, webCall, twitterCall, llmCall,
          agents, state, wpc, frame, notified, result,
          resolver_callback, active_sessions, agent_progress, pending_websocket_messages,
          websocket_connections, tasks, websocket_sent, queues>>

serverVars == <<resolver_callback, active_sessions, agent_progress, pending_websocket_messages,
                websocket_connections, tasks, websocket_sent, queues>>

graphVars == <<graph, gphase, related>>
callVars == <<localCall, webCall, twitterCall, llmCall>>
flowVars == <<agents, state, wpc, frame, notified, result>>

None == "None"

\* the value of a call variable before the call
NoCall == [op |-> "none"]

(***************************************************************************)
(* Generic sequence helpers (Python list / str primitives)                 *)
(***************************************************************************)
Min(a, b) == IF a <= b THEN a ELSE b
Max(a, b) == IF a >= b THEN a ELSE b

\* s[:n] for n >= 0
Take(s, n) == SubSeq(s, 1, Min(n, Len(s)))

\* s[n:] for n >= 0 (0-based start)
Drop(s, n) == SubSeq(s, n + 1, Len(s))

RECURSIVE Concat(_)
Concat(ss) == IF ss = <<>> THEN <<>> ELSE Head(ss) \o Concat(Tail(ss))

\* sep.join(parts)
RECURSIVE Join(_, _)
Join(sep, parts) ==
    IF parts = <<>> THEN <<>>
    ELSE IF Len(parts) = 1 THEN parts[1]
    ELSE parts[1] \o sep \o Join(sep, Tail(parts))

Range(s) == {s[i] : i \in DOMAIN s}

\* all sequences over S of length at most n
SeqUpTo(S, n) == UNION {[1..k -> S] : k \in 0..n}

\* the characters of a graph node id
Spell(name) ==
    CASE name = "GST" -> <<"G", "S", "T">>
      [] name = "CBIC" -> <<"C", "B", "I", "C">>
      [] name = "ITC" -> <<"I", "T", "C">>
      [] name = "GSTN" -> <<"G", "S", "T", "N">>
      [] OTHER -> <<"?">>

(***************************************************************************)
(* LightweightKnowledgeGraph                                               *)
(***************************************************************************)
MaxEdges == 3           \* edges read by load()
MaxDepth == 2           \* largest max_depth tried
MaxResults == 3         \* largest max_results tried

GraphNodes == {"GST", "CBIC", "ITC"}
Weights == {500, 1000}
Seeds == GraphNodes \cup {"GSTN"}

\* the labels a row of the nodes table gives a node: its id or, for one of
\* them, a longer name
InputTaxCredit == <<"I", "n", "p", "u", "t", " ", "T", "a", "x", " ", "C", "r", "e", "d", "i", "t">>
Labels(n) == IF n = "ITC" THEN {Spell(n), InputTaxCredit} ELSE {Spell(n)}

\* label: the label attribute of the nodes whose label is not their id
EmptyGraph == [nodes |-> {}, succ |-> <<>>, weight |-> <<>>, label |-> <<>>]

\* nx.DiGraph.add_node: a new node gets an empty adjacency, a known one is kept
AddNode(g, n) ==
    IF n \in g.nodes THEN g
    ELSE [g EXCEPT !.nodes = @ \cup {n}, !.succ = (n :> <<>>) @@ @]

\* nx.DiGraph.add_node(node_id, label=label): the attribute is set, also on a
\* node that is there
AddLabelledNode(g, n, label) ==
    IF label = Spell(n) THEN AddNode(g, n)
    ELSE [AddNode(g, n) EXCEPT !.label = (n :> label) @@ @]

\* nx.DiGraph.add_edge: endpoints are created, a new edge goes last in the
\* source's adjacency, a known edge keeps its place and takes the new data
AddEdge(g, u, v, w) ==
    LET g2 == AddNode(AddNode(g, u), v) IN
    IF <<u, v>> \in DOMAIN g2.weight
    THEN [g2 EXCEPT !.weight = (<<u, v>> :> w) @@ @]
    ELSE [g2 EXCEPT !.succ[u] = Append(@, v), !.weight = (<<u, v>> :> w) @@ @]

NumEdges(g) == Cardinality(DOMAIN g.weight)

\* the sort key with the weight not negated
SortKeyLessAscending(a, b) ==
    \/ a.weight < b.weight
    \/ (a.weight = b.weight /\ a.depth < b.depth)

\* key of related.sort: (-weight, depth), compared as Python compares tuples
SortKeyLess(a, b) ==
    \/ -a.weight < -b.weight
    \/ (-a.weight = -b.weight /\ a.depth < b.depth)

\* list.sort is stable: an element goes after every element not greater than it
RECURSIVE InsertRelated(_, _)
InsertRelated(sorted, x) ==
    IF sorted = <<>> THEN <<x>>
    ELSE IF SortKeyLess(x, Head(sorted)) THEN <<x>> \o sorted
    ELSE <<Head(sorted)>> \o InsertRelated(Tail(sorted), x)

\* related.sort(key=lambda x: (-x['weight'], x['depth']))
RECURSIVE SortRelated(_, _)
SortRelated(s, acc) ==
    IF s = <<>> THEN acc
    ELSE SortRelated(Tail(s), InsertRelated(acc, Head(s)))

\* node_data.get('label', neighbor)
NodeLabel(g, n) == IF n \in DOMAIN g.label THEN g.label[n] ELSE Spell(n)

\* "if neighbor not in visited" of find_related
Unvisited(neighbor, visited) == neighbor \notin visited

\* the loop over self.graph.neighbors(node); st = [related, visited, next_level]
RECURSIVE NeighborLoop(_, _, _, _, _, _)
NeighborLoop(g, node, depth, i, st, max_results) ==
    IF i > Len(g.succ[node]) THEN st
    ELSE LET neighbor == g.succ[node][i] IN
         IF ~Unvisited(neighbor, st.visited)
         THEN NeighborLoop(g, node, depth, i + 1, st, max_results)
         ELSE LET rel == Append(st.related,
                                [entity |-> neighbor,
                                 weight |-> g.weight[<<node, neighbor>>],
                                 depth |-> depth + 1, label |-> NodeLabel(g, neighbor)])
                  vis == st.visited \cup {neighbor}
              IN IF Len(rel) >= max_results
                 THEN [st EXCEPT !.related = rel, !.visited = vis]
                 ELSE NeighborLoop(g, node, depth, i + 1,
                                   [related |-> rel, visited |-> vis,
                                    next_level |-> Append(st.next_level, <<neighbor, depth + 1>>)],
                                   max_results)

\* the loop over current_level
RECURSIVE LevelLoop(_, _, _, _, _, _)
LevelLoop(g, current_level, j, st, max_depth, max_results) ==
    IF j > Len(current_level) THEN st
    ELSE LET node == current_level[j][1]
             depth == current_level[j][2]
         IN IF depth >= max_depth
            THEN LevelLoop(g, current_level, j + 1, st, max_depth, max_results)
            ELSE LevelLoop(g, current_level, j + 1,
                           NeighborLoop(g, node, depth, 1, st, max_results),
                           max_depth, max_results)

\* the while loop; returns the collected list before the final sort
RECURSIVE Traverse(_, _, _, _, _, _)
Traverse(g, current_level, rel, visited, max_depth, max_results) ==
    IF current_level = <<>> \/ ~(Len(rel) < max_results) THEN rel
    ELSE LET st == LevelLoop(g, current_level, 1,
                             [related |-> rel, visited |-> visited, next_level |-> <<>>],
                             max_depth, max_results)
         IN Traverse(g, st.next_level, st.related, st.visited, max_depth, max_results)

\* mutant: the seed is not put in the visited set
FindRelatedSeedUnvisited(g, entity, max_depth, max_results) ==
    IF entity \notin g.nodes THEN <<>>
    ELSE Take(SortRelated(Traverse(g, <<<<entity, 0>>>>, <<>>, {}, max_depth, max_results),
                          <<>>),
              max_results)

FindRelated(g, entity, max_depth, max_results) ==
    IF entity \notin g.nodes THEN <<>>
    ELSE Take(SortRelated(Traverse(g, <<<<entity, 0>>>>, <<>>, {entity}, max_depth, max_results),
                          <<>>),
              max_results)

(***************************************************************************)
(* Texts                                                                   *)
(***************************************************************************)
\* a text of n copies of character c
Rep(c, n) == [i \in 1..n |-> c]

\* str.lower() on the letters the model uses
LowerChar(c) ==
    CASE c = "A" -> "a" [] c = "B" -> "b" [] c = "C" -> "c" [] c = "D" -> "d" [] c = "E" -> "e"
      [] c = "F" -> "f" [] c = "G" -> "g" [] c = "H" -> "h" [] c = "I" -> "i" [] c = "J" -> "j"
      [] c = "K" -> "k" [] c = "L" -> "l" [] c = "M" -> "m" [] c = "N" -> "n" [] c = "O" -> "o"
      [] c = "P" -> "p" [] c = "Q" -> "q" [] c = "R" -> "r" [] c = "S" -> "s" [] c = "T" -> "t"
      [] c = "U" -> "u" [] c = "V" -> "v" [] c = "W" -> "w" [] c = "X" -> "x" [] c = "Y" -> "y"
      [] c = "Z" -> "z"
      [] OTHER -> c

LowerStr(s) == [i \in DOMAIN s |-> LowerChar(s[i])]

\* Python's "needle in hay" on strings
Contains(hay, needle) ==
    \E i \in 0..(Len(hay) - Len(needle)) : SubSeq(hay, i + 1, i + Len(needle)) = needle

\* A query is the sequence of tokens its regular expressions see.  kind:
\*   "entity"  matches \b(GST|GSTIN|GSTN|CBIC)\b once upper-cased; name is that term
\*   "form"    matches GSTR-?\d+[A-Z]? (name is the upper-cased GSTR-n term, or
\*             "" when the entity pattern GSTR-[0-9]+ does not match it)
\*   "notification", "fy", "keyword" (one of important_keywords), "word" (anything else)
Tok(kind, name, text) == [kind |-> kind, name |-> name, text |-> text]

\* the text of a query: its tokens separated by blanks
QueryText(query) == Join(<<" ">>, [i \in DOMAIN query |-> query[i].text])

(***************************************************************************)
(* LocalRetrievalAgent                                                     *)
(***************************************************************************)
MaxDocs == 3            \* matches the index answers with
MaxK == 2               \* largest k tried

ScoreThreshold == 150   \* result['score'] < 0.15

\* documents of the index: page_content and metadata
Doc(content, filename, page, category) ==
    [page_content |-> content,
     metadata |-> [filename |-> filename, page |-> page, category |-> category, date |-> None]]

Corpus ==
    {Doc(<<"I", "t", "c">>, "act.pdf", "1", "Payments"),
     Doc(<<"g", "s", "t", " ", "C", "B", "I", "C">>, "rules.pdf", "2", "Refunds"),
     Doc(<<>>, "blank.pdf", "3", "Payments"),
     Doc(<<"t", "a", "x">>, None, None, None)}

RawScores == {100, 150, 240}

\* _extract_entities: the set of GST terms found in text.upper()
ExtractEntities(query) ==
    {query[i].name : i \in {j \in DOMAIN query :
                               query[j].kind \in {"entity", "form"} /\ query[j].name # ""}}

\* citation built from metadata (filename, page)
Citation(metadata) ==
    LET filename == IF metadata.filename # None THEN metadata.filename ELSE "Unknown"
    IN IF metadata.page # None THEN <<filename, ", p", metadata.page>> ELSE <<filename>>

\* mutant: a match without category metadata passes the filter
CategoryKeptWhenMissing(filter_category, metadata) ==
    ~(filter_category # None /\ metadata.category # None
        /\ metadata.category # filter_category)

\* the category test of the vector-search loop: TRUE when the match is kept
CategoryKept(filter_category, metadata) ==
    ~(filter_category # None /\ metadata.category # filter_category)

\* the loop over docs: filter by category, build the result dicts
RECURSIVE VectorResults(_, _)
VectorResults(docs, filter_category) ==
    IF docs = <<>> THEN <<>>
    ELSE LET doc == Head(docs)[1]
             score == Head(docs)[2]
             rest == VectorResults(Tail(docs), filter_category)
         IN IF ~CategoryKept(filter_category, doc.metadata) THEN rest
            ELSE <<[content |-> doc.page_content, metadata |-> doc.metadata,
                    score |-> score, citation |-> Citation(doc.metadata)]>> \o rest

\* related_entities.extend(find_related(entity, max_depth=2, max_results=5)) over the entities
RECURSIVE RelatedEntities(_, _)
RelatedEntities(g, entities) ==
    IF entities = {} THEN <<>>
    ELSE LET e == CHOOSE x \in entities : TRUE
         IN FindRelated(g, e, 2, 5) \o RelatedEntities(g, entities \ {e})

\* boost += weight * 0.1 for every related entity whose name is in the content
RECURSIVE Boost(_, _)
Boost(content, related_entities) ==
    IF related_entities = <<>> THEN 0
    ELSE (IF Contains(LowerStr(content), LowerStr(Spell(Head(related_entities).entity)))
          THEN Head(related_entities).weight \div 10 ELSE 0)
         + Boost(content, Tail(related_entities))

\* the graph retriever of the agent: [kind |-> "none"] (not loaded),
\* [kind |-> "broken"] (find_related raises) or [kind |-> "graph", g |-> the graph]
NoGraph == [kind |-> "none"]
BrokenGraph == [kind |-> "broken"]
Graph(g) == [kind |-> "graph", g |-> g]

\* _apply_graph_boost
ApplyGraphBoost(gr, query, vector_results) ==
    IF gr.kind = "broken" THEN vector_results
    ELSE LET related_entities == RelatedEntities(gr.g, ExtractEntities(query))
         IN IF related_entities = <<>> THEN vector_results
            ELSE [i \in DOMAIN vector_results |->
                    [vector_results[i] EXCEPT
                        !.score = @ - Boost(vector_results[i].content, related_entities)]]

ScoreLess(a, b) == a.score < b.score

RECURSIVE InsertByScore(_, _)
InsertByScore(sorted, x) ==
    IF sorted = <<>> THEN <<x>>
    ELSE IF ScoreLess(x, Head(sorted)) THEN <<x>> \o sorted
    ELSE <<Head(sorted)>> \o InsertByScore(Tail(sorted), x)

\* vector_results.sort(key=lambda x: x['score'])
RECURSIVE SortByScore(_, _)
SortByScore(s, acc) ==
    IF s = <<>> THEN acc
    ELSE SortByScore(Tail(s), InsertByScore(acc, Head(s)))

\* mutant: the threshold itself is accepted
PassesThresholdInclusive(r) == r.score <= ScoreThreshold

\* the relevance filter: result['score'] < 0.15
PassesThreshold(r) == r.score < ScoreThreshold

\* vector_results[:k]
LimitToK(vector_results, k) == Take(vector_results, k)

\* RetrievalSource(...) of the local knowledge base
LocalSource(r) ==
    [source_type |-> "local_knowledge_base", content |-> r.content, citation |-> r.citation,
     relevance_score |-> r.score, date |-> r.metadata.date]

\* fetch_k = k * 3 if use_graph and self.graph_retriever else k * 2
FetchK(k, use_graph, gr) == IF use_graph /\ gr.kind # "none" THEN k * 3 ELSE k * 2

\* what the vector store does: [kind |-> "unavailable"] (vector_store is None),
\* [kind |-> "raises"] or [kind |-> "docs", docs |-> the list of (doc, score)]
StoreUnavailable == [kind |-> "unavailable"]
StoreRaises == [kind |-> "raises"]
StoreDocs(docs) == [kind |-> "docs", docs |-> docs]

\* LocalRetrievalAgent.retrieve.  Returns the ranked dicts kept
\* (vector_results) and the RetrievalSource list.
LocalRetrieve(answer, gr, query, k, filter_category, use_graph) ==
    IF answer.kind \in {"unavailable", "raises"}
    THEN [raised |-> FALSE, scored |-> <<>>, vector_results |-> <<>>, results |-> <<>>]
    ELSE LET found == VectorResults(answer.docs, filter_category)
             boosted == IF use_graph /\ gr.kind # "none"
                        THEN ApplyGraphBoost(gr, query, found) ELSE found
             ranked == SortByScore(boosted, <<>>)
             kept == LimitToK(SelectSeq(ranked, PassesThreshold), k)
         IN [raised |-> FALSE, scored |-> boosted, vector_results |-> kept,
             results |-> [i \in DOMAIN kept |-> LocalSource(kept[i])]]

(***************************************************************************)
(* WebRetrievalAgent                                                       *)
(***************************************************************************)
MaxWebHits == 2         \* results the search provider answers with

MaxQueryLength == 350   \* max_length of the focused query, [:350] of the LLM query
TavilyLimit == 400      \* len(query) > 400 of retrieve_tavily
WebScoreThreshold == 500    \* result.get('score', 0.0) > 0.5

IsSpace(c) == c \in {" ", "\n", "\t"}

\* str.strip()
RECURSIVE LStrip(_)
LStrip(s) == IF s # <<>> /\ IsSpace(Head(s)) THEN LStrip(Tail(s)) ELSE s

RECURSIVE RStrip(_)
RStrip(s) == IF s # <<>> /\ IsSpace(s[Len(s)]) THEN RStrip(SubSeq(s, 1, Len(s) - 1)) ELSE s

Strip(s) == RStrip(LStrip(s))

\* s.rsplit(' ', 1)[0]: the text before the last space, or all of s without one
RSplitHead(s) ==
    LET spaces == {i \in DOMAIN s : s[i] = " "}
    IN IF spaces = {} THEN s
       ELSE SubSeq(s, 1, (CHOOSE i \in spaces : \A j \in spaces : j <= i) - 1)

\* the texts of the tokens of one kind, in text order (re.findall)
RECURSIVE FindAll(_, _)
FindAll(query, kind) ==
    IF query = <<>> THEN <<>>
    ELSE (IF Head(query).kind = kind THEN <<Head(query).text>> ELSE <<>>)
         \o FindAll(Tail(query), kind)

\* the list important_keywords of _extract_key_terms
ImportantKeywords ==
    <<"late fee", "penalty", "notice", "filing", "refund",
      "portal error", "ITC", "composition", "registration", "mismatch">>

KeywordText(name) ==
    CASE name = "late fee" -> <<"l", "a", "t", "e", " ", "f", "e", "e">>
      [] name = "penalty" -> <<"p", "e", "n", "a", "l", "t", "y">>
      [] name = "notice" -> <<"n", "o", "t", "i", "c", "e">>
      [] name = "filing" -> <<"f", "i", "l", "i", "n", "g">>
      [] name = "refund" -> <<"r", "e", "f", "u", "n", "d">>
      [] name = "portal error" -> <<"p", "o", "r", "t", "a", "l", " ", "e", "r", "r", "o", "r">>
      [] name = "ITC" -> <<"I", "T", "C">>
      [] name = "composition" -> <<"c", "o", "m", "p", "o", "s", "i", "t", "i", "o", "n">>
      [] name = "registration" -> <<"r", "e", "g", "i", "s", "t", "r", "a", "t", "i", "o", "n">>
      [] OTHER -> <<"m", "i", "s", "m", "a", "t", "c", "h">>

\* "keyword in text_lower": the text is lower-cased, the keyword is not
KeywordPresent(query, name) ==
    /\ KeywordText(name) = LowerStr(KeywordText(name))
    /\ \E i \in DOMAIN query : query[i].kind = "keyword" /\ query[i].name = name

\* the loop over important_keywords
RECURSIVE KeywordLoop(_, _, _, _)
KeywordLoop(query, i, key_terms, max_terms) ==
    IF i > Len(ImportantKeywords) THEN key_terms
    ELSE KeywordLoop(query, i + 1,
                     IF KeywordPresent(query, ImportantKeywords[i]) /\ Len(key_terms) < max_terms
                     THEN Append(key_terms, KeywordText(ImportantKeywords[i]))
                     ELSE key_terms,
                     max_terms)

\* _extract_key_terms (the second definition, which is the one in effect)
ExtractKeyTerms(query, max_terms) ==
    LET t1 == Take(FindAll(query, "form"), 3)
        t2 == t1 \o Take(FindAll(query, "notification"), 2)
        t3 == KeywordLoop(query, 1, t2, max_terms)
        t4 == IF Len(t3) < max_terms THEN t3 \o Take(FindAll(query, "fy"), 1) ELSE t3
    IN Take(t4, max_terms)

\* category_context.get(category, "GST")
CategoryContext(category) ==
    CASE category = "gstr_filing" ->
            <<"G", "S", "T", " ", "r", "e", "t", "u", "r", "n", " ", "f", "i", "l", "i", "n", "g">>
      [] category = "refund" ->
            <<"G", "S", "T", " ", "r", "e", "f", "u", "n", "d", " ", "p", "r", "o", "c", "e", "s", "s">>
      [] OTHER -> <<"G", "S", "T">>

\* the length cut of _build_focused_query_regex
TruncateAtWord(focused_query, max_length) ==
    IF Len(focused_query) > max_length
    THEN RSplitHead(Take(focused_query, max_length))
    ELSE focused_query

\* _build_focused_query_regex; keywords is a list of texts, <<>> also for None
BuildFocusedQueryRegex(query, category, keywords, unrestricted) ==
    LET parts == IF keywords # <<>>
                 THEN Take(keywords, 5)
                 ELSE ExtractKeyTerms(query, 5)
        query_parts == IF category # None /\ ~unrestricted
                       THEN <<CategoryContext(category)>> \o parts
                       ELSE parts
    IN TruncateAtWord(Join(<<" ">>, query_parts), MaxQueryLength)

\* response.content.strip()[:350]
TruncateLLMQuery(content) == Take(Strip(content), MaxQueryLength)

\* the model of an agent: [kind |-> "none"] (no model), [kind |-> "raises"]
\* (invoke raises) or [kind |-> "text", text |-> what the model answers]
NoLLM == [kind |-> "none"]
LLMRaises == [kind |-> "raises"]
LLMText(text) == [kind |-> "text", text |-> text]

\* _build_focused_query_with_llm
BuildFocusedQueryWithLLM(llm, query, category, unrestricted) ==
    IF llm.kind = "none" THEN BuildFocusedQueryRegex(query, category, <<>>, unrestricted)
    ELSE IF llm.kind = "raises" THEN BuildFocusedQueryRegex(query, category, <<>>, unrestricted)
    ELSE TruncateLLMQuery(llm.text)

\* _build_focused_query_tavily
BuildFocusedQueryTavily(llm, query, category, keywords, unrestricted) ==
    IF llm.kind # "none" THEN BuildFocusedQueryWithLLM(llm, query, category, unrestricted)
    ELSE BuildFocusedQueryRegex(query, category, keywords, unrestricted)

\* mutant: no safety check before the network call
EmergencyTruncateOff(query) == query

\* the safety check of retrieve_tavily: query[:397] + "..."
EmergencyTruncate(query) ==
    IF Len(query) > TavilyLimit THEN Take(query, 397) \o <<".", ".", ".">> ELSE query

\* a result dict of the provider; has_score: the dict has a 'score' key
Hit(content, url, has_score, score) ==
    [content |-> content, url |-> url, has_score |-> has_score, score |-> score,
     published_date |-> None]

\* result.get('score', 0.0)
ScoreOf(hit) == IF ~hit.has_score THEN 0 ELSE hit.score

\* mutant: a score of exactly 0.5 is accepted
WebScoreKeptInclusive(hit) == ScoreOf(hit) >= WebScoreThreshold

\* the relevance filter of retrieve_tavily
WebScoreKept(hit) == ScoreOf(hit) > WebScoreThreshold

WebSource(hit) ==
    [source_type |-> "web_search", content |-> hit.content, citation |-> hit.url,
     relevance_score |-> ScoreOf(hit), date |-> hit.published_date]

\* what client.search does: [kind |-> "raises"] or [kind |-> "hits", hits |-> the results]
SearchRaises == [kind |-> "raises"]
SearchHits(hits) == [kind |-> "hits", hits |-> hits]

\* retrieve_tavily.  sent is the query handed to client.search.
RetrieveTavily(query, search) ==
    LET sent == EmergencyTruncate(query)
        kept == IF search.kind = "raises" THEN <<>> ELSE SelectSeq(search.hits, WebScoreKept)
    IN [raised |-> FALSE, searched |-> TRUE, sent |-> sent, built |-> TRUE,
        results |-> [i \in DOMAIN kept |-> WebSource(kept[i])]]

\* retrieve returns [] without a search; built: a condensed query was built
NoSearch(built) ==
    [raised |-> FALSE, searched |-> FALSE, sent |-> <<>>, built |-> built, results |-> <<>>]

\* mutant: the search is executed for every provider that has a client
WebRetrieveAnyProvider(web, query, category, keywords, search) ==
    IF ~web.client THEN NoSearch(FALSE)
    ELSE RetrieveTavily(
             IF web.provider = "tavily"
             THEN BuildFocusedQueryTavily(web.llm, query, category, keywords, web.unrestricted)
             ELSE IF web.llm.kind # "none"
                  THEN BuildFocusedQueryWithLLM(web.llm, query, category, web.unrestricted)
                  ELSE BuildFocusedQueryRegex(query, category, keywords, web.unrestricted),
             search)

\* WebRetrievalAgent.retrieve.  web = [client, provider, llm, unrestricted]
WebRetrieve(web, query, category, keywords, search) ==
    IF ~web.client THEN NoSearch(FALSE)
    ELSE LET enhanced_query ==
                 IF web.provider = "tavily"
                 THEN BuildFocusedQueryTavily(web.llm, query, category, keywords, web.unrestricted)
                 ELSE IF web.llm.kind # "none"
                      THEN BuildFocusedQueryWithLLM(web.llm, query, category, web.unrestricted)
                      ELSE BuildFocusedQueryRegex(query, category, keywords, web.unrestricted)
         IN IF web.provider = "tavily" THEN RetrieveTavily(enhanced_query, search)
            ELSE NoSearch(TRUE)

(***************************************************************************)
(* TwitterRetrievalAgent                                                   *)
(***************************************************************************)
MaxKeywords == 3        \* keywords handed to the Twitter agent
MaxTweets == 2          \* tweets the provider answers with

\* Config.GSTN_TWITTER = "@Infosys_GSTN"
GSTN_TWITTER == <<"@", "I", "n", "f", "o", "s", "y", "s", "_", "G", "S", "T", "N">>

\* str.replace('@', '')
RemoveAt(s) == SelectSeq(s, LAMBDA c : c # "@")

\* mutant: the keyword is not quoted
QuoteOmitted(keyword) == keyword

\* f'"{keyword}"'
Quote(keyword) == <<"\"">> \o keyword \o <<"\"">>

\* the query of TwitterRetrievalAgent.retrieve
TwitterQuery(keywords) ==
    LET scope == <<"f", "r", "o", "m", ":">> \o RemoveAt(GSTN_TWITTER)
    IN IF keywords = <<>> THEN scope
       ELSE scope \o <<" ", "(">>
            \o Join(<<" ", "O", "R", " ">>, [i \in DOMAIN keywords |-> Quote(keywords[i])])
            \o <<")">>

\* min(engagement / 100.0, 1.0), in thousandths
EngagementScore(like_count) == Min(like_count * 10, 1000)

\* a tweet of the provider; has_fields: it has text and created_at;
\* has_metrics: public_metrics is there and not empty
Tweet(text, created_at, has_fields, has_metrics, like_count) ==
    [text |-> text, created_at |-> created_at, has_fields |-> has_fields,
     has_metrics |-> has_metrics, like_count |-> like_count]

\* a tweet is kept when it has text and created_at
TweetValid(tweet) == tweet.has_fields

TweetSource(tweet) ==
    [source_type |-> "twitter", content |-> tweet.text,
     citation |-> <<"@", GSTN_TWITTER, " - ", tweet.created_at>>,
     relevance_score |-> EngagementScore(IF tweet.has_metrics THEN tweet.like_count ELSE 0),
     date |-> tweet.created_at]

\* what search_recent_tweets does: [kind |-> "raises"], [kind |-> "none"]
\* (no data) or [kind |-> "tweets", tweets |-> the list]
FeedRaises == [kind |-> "raises"]
FeedEmpty == [kind |-> "none"]
FeedTweets(tweets) == [kind |-> "tweets", tweets |-> tweets]

\* TwitterRetrievalAgent.retrieve.  client: is a client there
TwitterRetrieve(client, keywords, feed) ==
    IF ~client THEN [raised |-> FALSE, searched |-> FALSE, sent |-> <<>>, results |-> <<>>]
    ELSE LET query == TwitterQuery(keywords)
             valid == IF feed.kind \in {"raises", "none"} THEN <<>>
                      ELSE SelectSeq(feed.tweets, TweetValid)
         IN [raised |-> FALSE, searched |-> TRUE, sent |-> query,
             results |-> [i \in DOMAIN valid |-> TweetSource(valid[i])]]

(***************************************************************************)
(* LLMReasoningAgent                                                       *)
(***************************************************************************)

\* the character U+2022, written as a token of its own
Bullet == "bullet"

Digits == {"0", "1", "2", "3", "4", "5", "6", "7", "8", "9"}
Whitespace == {" ", "\n", "\t"}
LowerLetters == {"a", "b", "c", "d", "e", "f", "g", "h", "i", "j", "k", "l", "m", "n", "o", "p", "q", "r", "s", "t", "u", "v", "w", "x", "y", "z"}

\* \w of the regular expressions
IsWordChar(c) == LowerChar(c) \in LowerLetters \/ c \in Digits \/ c = "_"

\* the first position from i on whose character is not in S (Len + 1 at the end)
RECURSIVE SkipSet(_, _, _)
SkipSet(text, i, S) ==
    IF i <= Len(text) /\ text[i] \in S THEN SkipSet(text, i + 1, S) ELSE i

\* The pieces of a regular expression.  Each takes the position i it is
\* tried at, 0 if what stands before it did not match, and gives the position
\* after its match, or 0.

\* a literal, letters compared without case
MatchLit(text, i, lit) ==
    IF i >= 1 /\ i + Len(lit) - 1 <= Len(text)
       /\ LowerStr(SubSeq(text, i, i + Len(lit) - 1)) = LowerStr(lit)
    THEN i + Len(lit) ELSE 0

\* one character of the set S
MatchChar(text, i, S) ==
    IF i >= 1 /\ i <= Len(text) /\ text[i] \in S THEN i + 1 ELSE 0

\* S*, all the characters of S there are
MatchMany(text, i, S) == IF i >= 1 THEN SkipSet(text, i, S) ELSE 0

\* S+
MatchSome(text, i, S) == MatchMany(text, MatchChar(text, i, S), S)

\* Issue\s*#\d+
MatchIssueHash(text, i) ==
    MatchSome(text,
        MatchChar(text, MatchMany(text, MatchLit(text, i, <<"I", "s", "s", "u", "e">>), Whitespace), {"#"}),
        Digits)

\* the patterns of _split_combined_analysis, in list order; the position after
\* a match of pattern pat at position i, or 0
MatchAt(pat, text, i) ==
    CASE pat = 1 ->         \* Issue\s*#\d+\s*:
            MatchChar(text, MatchMany(text, MatchIssueHash(text, i), Whitespace), {":"})
      [] pat = 2 ->         \* Issue\s*#\d+\s*Analysis:
            MatchLit(text, MatchMany(text, MatchIssueHash(text, i), Whitespace), <<"A", "n", "a", "l", "y", "s", "i", "s", ":">>)
      [] pat = 3 ->         \* Analysis\s+for\s+Issue\s*#\d+
            MatchIssueHash(text,
                MatchSome(text,
                    MatchLit(text, MatchSome(text, MatchLit(text, i, <<"A", "n", "a", "l", "y", "s", "i", "s">>), Whitespace),
                             <<"f", "o", "r">>),
                    Whitespace))
      [] pat = 4 ->         \* \n\n\d+\.\s
            MatchChar(text,
                MatchChar(text, MatchSome(text, MatchLit(text, i, <<"\n", "\n">>), Digits),
                          {"."}),
                Whitespace)
      [] pat = 5 ->         \* Issue\s+\d+\s*:
            MatchChar(text,
                MatchMany(text,
                    MatchSome(text, MatchSome(text, MatchLit(text, i, <<"I", "s", "s", "u", "e">>), Whitespace),
                              Digits),
                    Whitespace),
                {":"})
      [] pat = 6 ->         \* I\s*\d+[:.]
            MatchChar(text,
                MatchSome(text, MatchMany(text, MatchLit(text, i, <<"I">>), Whitespace), Digits),
                {":", "."})
      [] pat = 7 ->         \* \n\n(U+2022)\s
            MatchChar(text, MatchLit(text, i, <<"\n", "\n", Bullet>>), Whitespace)
      [] pat = 8 ->         \* \n\n-\s
            MatchChar(text, MatchLit(text, i, <<"\n", "\n", "-">>), Whitespace)
      [] pat = 9 ->         \* \n\n, split with str.split
            MatchLit(text, i, <<"\n", "\n">>)
      [] OTHER ->           \* \n, the line split of the header strategy
            MatchLit(text, i, <<"\n">>)

NumPatterns == 9

\* the least element of a set of numbers
Least(S) == CHOOSE x \in S : \A y \in S : x <= y

\* the pieces between the matches, left to right, matches not overlapping;
\* starts is the set of positions where the pattern matches
RECURSIVE SplitFrom(_, _, _, _)
SplitFrom(pat, text, pos, starts) ==
    IF \A i \in starts : i < pos THEN <<SubSeq(text, pos, Len(text))>>
    ELSE <<SubSeq(text, pos, Least({i \in starts : i >= pos}) - 1)>>
         \o SplitFrom(pat, text, MatchAt(pat, text, Least({i \in starts : i >= pos})), starts)

\* re.split(pattern, text, flags=re.IGNORECASE), text.split('\n\n'), text.split('\n')
Split(pat, text) ==
    SplitFrom(pat, text, 1, {i \in 1..Len(text) : MatchAt(pat, text, i) > 0})

\* [p.strip() for p in pieces if p.strip()]
StripNonEmpty(pieces) ==
    SelectSeq([i \in DOMAIN pieces |-> Strip(pieces[i])], LAMBDA p : p # <<>>)

\* parts of more than 50 characters
Substantial(p) == Len(p) > 50

\* max(300, len(cleaned_text) // expected_issues)
ChunkSize(text, expected_issues) == Max(300, Len(text) \div expected_issues)

\* [chunk] if chunk else []
ChunkIfAny(chunk) == IF chunk # <<>> THEN <<chunk>> ELSE <<>>

\* the loop "for i in range(0, len(cleaned_text), chunk_size)"
RECURSIVE Chunks(_, _, _)
Chunks(text, i, chunk_size) ==
    IF i >= Len(text) THEN <<>>
    ELSE ChunkIfAny(Strip(SubSeq(text, i + 1, Min(i + chunk_size, Len(text)))))
         \o Chunks(text, i + chunk_size, chunk_size)

\* the equal-portions fallback
ChunkSplit(text, expected_issues) ==
    Take(Chunks(text, 0, ChunkSize(text, expected_issues)), expected_issues)

\* re.match(header_pattern, line) for the two header patterns
HeaderMatch(h, line) ==
    IF h = 1        \* ^\*\*[^*]+\*\*
    THEN MatchLit(line, MatchSome(line, MatchLit(line, 1, <<"*", "*">>), Range(line) \ {"*"}),
                  <<"*", "*">>) > 0
    ELSE            \* ^#+\s*\w+
         MatchChar(line, MatchMany(line, MatchSome(line, 1, {"#"}), Whitespace),
                   {c \in Range(line) : IsWordChar(c)}) > 0

\* parts.append(content) if len(content) > 50
AppendSubstantial(parts, content) ==
    IF Len(content) > 50 THEN Append(parts, content) ELSE parts

\* the part the lines gathered make
PartOf(current_part) == Strip(Join(<<"\n">>, current_part))

\* one turn of the loop over the lines; st = [parts, current_part]
HeaderLine(h, st, line) ==
    IF HeaderMatch(h, line) /\ st.current_part # <<>>
    THEN [parts |-> AppendSubstantial(st.parts, PartOf(st.current_part)),
          current_part |-> <<line>>]
    ELSE [st EXCEPT !.current_part = Append(@, line)]

\* the loop over the lines
RECURSIVE HeaderLines(_, _, _, _)
HeaderLines(h, lines, i, st) ==
    IF i > Len(lines) THEN st
    ELSE HeaderLines(h, lines, i + 1, HeaderLine(h, st, Strip(lines[i])))

\* "Add the last part"
HeaderLast(st) ==
    IF st.current_part # <<>> THEN AppendSubstantial(st.parts, PartOf(st.current_part))
    ELSE st.parts

\* the parts one header pattern gives
HeaderParts(h, text) ==
    HeaderLast(HeaderLines(h, Split(10, text), 1, [parts |-> <<>>, current_part |-> <<>>]))

\* the loop over header_patterns, then the equal portions
RECURSIVE HeaderLoop(_, _, _)
HeaderTry(h, text, expected_issues, parts) ==
    IF Len(parts) >= expected_issues THEN Take(parts, expected_issues)
    ELSE HeaderLoop(h + 1, text, expected_issues)

HeaderLoop(h, text, expected_issues) ==
    IF h > 2 THEN ChunkSplit(text, expected_issues)
    ELSE HeaderTry(h, text, expected_issues, HeaderParts(h, text))

\* the loop over patterns: the first pattern giving enough substantial
\* parts, then the header patterns
RECURSIVE PatternLoop(_, _, _)
PatternTry(pat, text, expected_issues, filtered_parts) ==
    IF Len(filtered_parts) >= expected_issues THEN Take(filtered_parts, expected_issues)
    ELSE PatternLoop(pat + 1, text, expected_issues)

PatternLoop(pat, text, expected_issues) ==
    IF pat > NumPatterns THEN HeaderLoop(1, text, expected_issues)
    ELSE PatternTry(pat, text, expected_issues,
                    SelectSeq(StripNonEmpty(Split(pat, text)), Substantial))

\* _split_combined_analysis
SplitCombinedAnalysis(combined_text, expected_issues) ==
    PatternLoop(1, Strip(combined_text), expected_issues)

\* if text.startswith('**'): text = text[2:].lstrip()
DropLeadingStars(text) ==
    IF Len(text) >= 2 /\ SubSeq(text, 1, 2) = <<"*", "*">> THEN LStrip(Drop(text, 2)) ELSE text

\* if text.endswith('**'): text = text[:-2].rstrip()
DropTrailingStars(text) ==
    IF Len(text) >= 2 /\ SubSeq(text, Len(text) - 1, Len(text)) = <<"*", "*">>
    THEN RStrip(Take(text, Len(text) - 2)) ELSE text

\* the markdown clean-up of an analysis
CleanAnalysis(analysis) == DropTrailingStars(DropLeadingStars(Strip(analysis)))

\* a core issue of the preprocessing output
CoreIssue(issue_text, keywords, priority) ==
    [issue_text |-> issue_text, keywords |-> keywords, priority |-> priority]

\* str(n) for the small numbers of the model
DigitChar(n) == <<"0", "1", "2", "3", "4", "5", "6", "7", "8", "9">>[(n % 10) + 1]
NumText(n) == IF n < 10 THEN <<DigitChar(n)>> ELSE <<DigitChar(n \div 10), DigitChar(n)>>

\* the three header lines written for core issue number n (1-based)
IssueHeader(n, issue) ==
    <<<<"*", "*", "C", "o", "r", "e", " ", "I", "s", "s", "u", "e", " ">> \o NumText(n) \o <<"*", "*", ":", " ">> \o issue.issue_text,
      <<"*", "*", "P", "r", "i", "o", "r", "i", "t", "y", "*", "*", ":", " ">> \o NumText(issue.priority),
      <<"*", "*", "K", "e", "y", "w", "o", "r", "d", "s", "*", "*", ":", " ">> \o Join(<<",", " ">>, issue.keywords)>>

\* formatted_content of one analysis
FormatAnalysis(idx, issue, analysis) ==
    Join(<<"\n">>, IssueHeader(idx + 1, issue)
                   \o <<<<>>, <<"*", "*", "L", "L", "M", " ", "A", "n", "a", "l", "y", "s", "i", "s", ":", "*", "*">>, CleanAnalysis(analysis)>>)

\* combined_content of the combined fallback
FormatCombined(core_issues, combined_reasoning) ==
    Join(<<"\n">>,
         Concat([i \in DOMAIN core_issues |-> IssueHeader(i, core_issues[i]) \o <<<<>>>>])
         \o <<<<"*", "*", "C", "o", "m", "b", "i", "n", "e", "d", " ", "L", "L", "M", " ", "A", "n", "a", "l", "y", "s", "i", "s", ":", "*", "*">>, CleanAnalysis(combined_reasoning)>>)

\* mutant: the source is given the relevance of a web result
LLMSourceHalfRelevant(content, label, issue) ==
    [source_type |-> "llm_reasoning", content |-> content,
     citation |-> <<label, issue>>, relevance_score |-> 500, date |-> None]

LLMSource(content, label, issue) ==
    [source_type |-> "llm_reasoning", content |-> content,
     citation |-> <<label, issue>>, relevance_score |-> 800, date |-> None]

\* the loop over individual_analyses
RECURSIVE AnalysisSources(_, _, _)
AnalysisSources(individual_analyses, core_issues, idx) ==
    IF idx >= Len(individual_analyses) THEN <<>>
    ELSE (IF Strip(individual_analyses[idx + 1]) # <<>> /\ idx < Len(core_issues)
          THEN <<LLMSource(FormatAnalysis(idx, core_issues[idx + 1], individual_analyses[idx + 1]),
                           "Reasoning LLM Analysis - Issue", idx + 1)>>
          ELSE <<>>)
         \o AnalysisSources(individual_analyses, core_issues, idx + 1)

\* the combined analysis as the one result when the split gave none
ResultsOrCombined(results, core_issues, combined_reasoning) ==
    IF Len(results) = 0 /\ Strip(combined_reasoning) # <<>>
    THEN <<LLMSource(FormatCombined(core_issues, combined_reasoning),
                     "Reasoning LLM Analysis - Combined", 0)>>
    ELSE results

\* the results made of response.content.strip()
ResultsOf(combined_reasoning, core_issues) ==
    ResultsOrCombined(
        AnalysisSources(SplitCombinedAnalysis(combined_reasoning, Len(core_issues)),
                        core_issues, 0),
        core_issues, combined_reasoning)

\* the body of LLMReasoningAgent.retrieve: the list it returns
LLMResults(llm, core_issues) ==
    IF llm.kind \in {"none", "raises", "empty"} \/ core_issues = <<>>
    THEN <<>>
    ELSE ResultsOf(Strip(llm.text), core_issues)

\* the model call's exception let through
LLMRetrieveUnguarded(llm, core_issues) ==
    [raised |-> llm.kind = "raises", results |-> LLMResults(llm, core_issues)]

\* LLMReasoningAgent.retrieve.  llm: [kind |-> "none"] (no client),
\* [kind |-> "raises"], [kind |-> "empty"] (a falsy response) or
\* [kind |-> "text", text |-> response.content]
LLMRetrieve(llm, core_issues) ==
    [raised |-> FALSE, results |-> LLMResults(llm, core_issues)]

(***************************************************************************)
(* RetrievalOrchestratorAgent                                              *)
(***************************************************************************)
MAX_LOCAL_RESULTS == 5              \* Config.MAX_LOCAL_RESULTS
MIN_CONFIDENCE_THRESHOLD == 95      \* Config.MIN_CONFIDENCE_THRESHOLD
WEB_SEARCH_UNRESTRICTED == TRUE     \* Config.WEB_SEARCH_UNRESTRICTED

\* a key of the state dict that is None or missing
Absent == [kind |-> "none"]

\* the user_query of a state that has one: the tokens of the text
Query(tokens) == [kind |-> "set", tokens |-> tokens]

ExtractedEntity(value) == [value |-> value]

PreprocessingOutput(core_issues, entities) ==
    [kind |-> "set", core_issues |-> core_issues, entities |-> entities]

ClassificationOutput(primary_category, secondary_categories, confidence) ==
    [kind |-> "set", primary_category |-> primary_category,
     secondary_categories |-> secondary_categories, confidence |-> confidence]

\* the sum with the reasoning results left out
TotalSourcesWithoutReasoning(twitter_results, local_results, web_results, llm_reasoning) ==
    Len(twitter_results) + Len(local_results) + Len(web_results)

\* len(twitter_results) + len(local_results) + len(web_results) + len(llm_reasoning)
TotalSources(twitter_results, local_results, web_results, llm_reasoning) ==
    Len(twitter_results) + Len(local_results) + Len(web_results) + Len(llm_reasoning)

RetrievalOutput(twitter_results, local_results, web_results, llm_reasoning, total_sources) ==
    [kind |-> "set", twitter_results |-> twitter_results, local_results |-> local_results,
     web_results |-> web_results, llm_reasoning |-> llm_reasoning,
     total_sources |-> total_sources]

\* the bundle set on the two error paths
EmptyRetrievalOutput == RetrievalOutput(<<>>, <<>>, <<>>, <<>>, 0)

\* the callback called without the test that there is one
NotifyStatusUnchecked(status_callback, progress) ==
    [raised |-> status_callback = "absent",
     delivered |-> IF status_callback = "absent" THEN <<>> ELSE <<progress>>]

\* a status callback that raises, let through
NotifyStatusUnprotected(status_callback, progress) ==
    [raised |-> status_callback = "raising",
     delivered |-> IF status_callback = "absent" THEN <<>> ELSE <<progress>>]

\* _notify_status.  status_callback: "absent", "ok" or "raising" (a callback
\* that raises when called); delivered: the calls the callback received
NotifyStatus(status_callback, progress) ==
    [raised |-> FALSE,
     delivered |-> IF status_callback = "absent" THEN <<>> ELSE <<progress>>]

\* the keyword list: issue texts, entity values, primary and secondary categories
AllKeywords(preprocessing, classification) ==
    [i \in DOMAIN preprocessing.core_issues |-> preprocessing.core_issues[i].issue_text]
    \o [i \in DOMAIN preprocessing.entities |-> preprocessing.entities[i].value]
    \o (IF classification.kind = "set"
        THEN <<classification.primary_category>> \o classification.secondary_categories
        ELSE <<>>)

\* the category handed to the local and the web agent
SearchCategory(classification) ==
    IF classification.kind = "set" /\ ~WEB_SEARCH_UNRESTRICTED
    THEN classification.primary_category ELSE None

\* what a retriever that was not called has left
NotRun == [ran |-> FALSE, results |-> <<>>]
Ran(results) == [ran |-> TRUE, results |-> results]

\* the steps of the try block after the preprocessing check, in order
ProcessSteps ==
    <<[do |-> "notify", progress |-> 640], [do |-> "twitter", progress |-> 0],
      [do |-> "notify", progress |-> 680], [do |-> "local", progress |-> 0],
      [do |-> "notify", progress |-> 720], [do |-> "web", progress |-> 0],
      [do |-> "notify", progress |-> 760], [do |-> "llm", progress |-> 0],
      [do |-> "notify", progress |-> 780], [do |-> "notify", progress |-> 790]>>

\* what a retriever returns that the try block does not come to call
NotCalled == [raised |-> FALSE, results |-> <<>>]

\* the text of the exception step k of the try block raises, None for none
StepRaises(k, cb, has_query, twitter, local, web, llm) ==
    CASE ProcessSteps[k].do = "notify" ->
            IF NotifyStatus(cb, ProcessSteps[k].progress).raised
            THEN "status callback raised" ELSE None
      [] ProcessSteps[k].do = "twitter" ->
            IF twitter.raised THEN "twitter search raised" ELSE None
      [] ProcessSteps[k].do = "local" ->
            IF ~has_query THEN "'user_query'"       \* state["user_query"]
            ELSE IF local.raised THEN "vector search raised" ELSE None
      [] ProcessSteps[k].do = "web" ->
            IF ~has_query THEN "'user_query'"
            ELSE IF web.raised THEN "web search raised" ELSE None
      [] ProcessSteps[k].do = "llm" ->
            IF llm.raised THEN "model call raised" ELSE None

\* the first step of the try block that raises, 0 if none does
FailedStep(cb, has_query, twitter, local, web, llm) ==
    IF \A k \in DOMAIN ProcessSteps :
          StepRaises(k, cb, has_query, twitter, local, web, llm) = None
    THEN 0
    ELSE Least({k \in DOMAIN ProcessSteps :
                   StepRaises(k, cb, has_query, twitter, local, web, llm) # None})

\* step k was started; step k has returned
Reached(k, failed) == failed = 0 \/ k <= failed
Returned(k, failed) == failed = 0 \/ k < failed

\* what the callback received from the steps of the try block
StepsNotified(cb, failed) ==
    Concat([k \in DOMAIN ProcessSteps |->
               IF ProcessSteps[k].do = "notify" /\ Reached(k, failed)
               THEN NotifyStatus(cb, ProcessSteps[k].progress).delivered
               ELSE <<>>])

\* what the retrievers that were called returned
Calls(failed, twitter, local, web, llm) ==
    [twitter |-> IF Returned(2, failed) THEN Ran(twitter.results) ELSE NotRun,
     local |-> IF Returned(4, failed) THEN Ran(local.results) ELSE NotRun,
     web |-> IF Returned(6, failed) THEN Ran(web.results) ELSE NotRun,
     llm |-> IF Returned(8, failed) THEN Ran(llm.results) ELSE NotRun]

NoCalls == [twitter |-> NotRun, local |-> NotRun, web |-> NotRun, llm |-> NotRun]

\* the except clause of process: the error recorded, the empty bundle, the
\* notification; process raises if the notification does
ProcessExcept(cb, st, message, notified_, calls) ==
    [raised |-> NotifyStatus(cb, 600).raised,
     state |-> [st EXCEPT !.errors = Append(@, message),
                          !.retrieval_output = EmptyRetrievalOutput],
     notified |-> notified_ \o NotifyStatus(cb, 600).delivered, calls |-> calls]

\* the try block after the preprocessing check, given what the retrievers
\* return and the first step that raises; already: what was notified before
ProcessEnd(cb, st, already, failed, message, twitter, local, web, llm) ==
    IF failed = 0
    THEN [raised |-> FALSE,
          state |-> [st EXCEPT !.retrieval_output =
                        RetrievalOutput(twitter.results, local.results, web.results,
                                        llm.results,
                                        TotalSources(twitter.results, local.results,
                                                     web.results, llm.results))],
          notified |-> already \o StepsNotified(cb, failed),
          calls |-> Calls(failed, twitter, local, web, llm)]
    ELSE ProcessExcept(cb, st, message, already \o StepsNotified(cb, failed),
                       Calls(failed, twitter, local, web, llm))

ProcessTry(cb, st, already, has_query, twitter, local, web, llm) ==
    ProcessEnd(cb, st, already,
               FailedStep(cb, has_query, twitter, local, web, llm),
               StepRaises(Max(1, FailedStep(cb, has_query, twitter, local, web, llm)),
                          cb, has_query, twitter, local, web, llm),
               twitter, local, web, llm)

\* the try block from the keyword list on
ProcessFrom(ag, st, already, all_keywords, has_query, category) ==
    ProcessTry(ag.status_callback, st, already, has_query,
        TwitterRetrieve(ag.twitter.client, all_keywords, ag.twitter.feed),
        IF has_query
        THEN LocalRetrieve(ag.local.answer, ag.local.gr, st.user_query.tokens,
                           MAX_LOCAL_RESULTS, category, TRUE)
        ELSE NotCalled,
        IF has_query
        THEN WebRetrieve(ag.web.agent, st.user_query.tokens, category, all_keywords,
                         ag.web.search)
        ELSE NotCalled,
        LLMRetrieve(ag.llm, st.preprocessing_output.core_issues))

\* RetrievalOrchestratorAgent.process.  ag: status_callback and, for each
\* retrieval agent, its client and what the service behind it answers.  The
\* state always carries its errors list.  Returns the state, whether process
\* raised, the progress values notified and what each retriever returned.
OrchestratorProcess(ag, st) ==
    IF NotifyStatus(ag.status_callback, 620).raised
    THEN ProcessExcept(ag.status_callback, st, "status callback raised",
                       NotifyStatus(ag.status_callback, 620).delivered, NoCalls)
    ELSE IF st.preprocessing_output.kind = "none"
    THEN [raised |-> FALSE,
          state |-> [st EXCEPT !.errors = Append(@, "No preprocessing output available"),
                               !.retrieval_output = EmptyRetrievalOutput],
          notified |-> NotifyStatus(ag.status_callback, 620).delivered,
          calls |-> NoCalls]
    ELSE ProcessFrom(ag, st, NotifyStatus(ag.status_callback, 620).delivered,
                     AllKeywords(st.preprocessing_output, st.classification_output),
                     st.user_query.kind # "none", SearchCategory(st.classification_output))

(***************************************************************************)
(* The workflow: agents 1, 2, 4 and 5, the graph and process_query         *)
(***************************************************************************)
OTHERS == <<"O", "t", "h", "e", "r", "s">>

\* GrievanceCategory: five of its values, "Returns - GSTR7" and
\* "Returns GSTR7" among them
RETURNS_GSTR7 == <<"R", "e", "t", "u", "r", "n", "s", " ", "-", " ", "G", "S", "T", "R", "7">>
RETURNS_GSTR7_ALT == <<"R", "e", "t", "u", "r", "n", "s", " ", "G", "S", "T", "R", "7">>

AllowedCategories ==
    {OTHERS, <<"R", "e", "f", "u", "n", "d", " ", "-", " ", "E", "x", "p", "o", "r", "t", "s">>,
     <<"R", "e", "f", "u", "n", "d", "s", " ", "-", " ", "R", "F", "D", "1", "0">>,
     RETURNS_GSTR7, RETURNS_GSTR7_ALT}

\* ClassificationAgent._normalize
Normalize(value) ==
    SelectSeq(LowerStr(Strip(value)), LAMBDA c : c \in LowerLetters \cup Digits)

\* the dicts __init__ can leave in self.normalized_lookup: of the allowed
\* categories with one normalised form the dict comprehension keeps the one
\* the iteration over the set allowed_categories reaches last, and the order
\* of a set of strings differs from one run of the interpreter to the next.
\* last: the one of the two spellings of "Returns GSTR7" reached last
NormalizedLookups ==
    {[normalized \in {Normalize(category) : category \in AllowedCategories} |->
         IF normalized = Normalize(last) THEN last
         ELSE CHOOSE category \in AllowedCategories : Normalize(category) = normalized] :
       last \in {RETURNS_GSTR7, RETURNS_GSTR7_ALT}}

\* PreprocessingAgent.process.  llm: [kind |-> "none"], [kind |-> "raises"]
\* (the call or the parsing of its answer raises) or
\* [kind |-> "output", output |-> the parsed PreprocessingOutput]
PreprocessingProcess(llm, st) ==
    LET default == PreprocessingOutput(
                       <<CoreIssue(QueryText(st.user_query.tokens), <<<<"q", "u", "e", "r", "y">>>>, 1)>>, <<>>)
    IN IF llm.kind = "none"
       THEN [st EXCEPT !.errors = Append(@, "Preprocessing LLM not initialized"),
                       !.preprocessing_output = default]
       ELSE IF llm.kind = "raises"
       THEN [st EXCEPT !.errors = Append(@, "preprocessing failed"),
                       !.preprocessing_output = default]
       ELSE [st EXCEPT !.preprocessing_output = llm.output]

\* ClassificationAgent.process
ClassificationProcess(normalized_lookup, st) ==
    LET selected_category == IF st.selected_category.kind = "none"
                                \/ st.selected_category.text = <<>>
                             THEN OTHERS ELSE st.selected_category.text
        normalized == Normalize(selected_category)
    IN [st EXCEPT !.classification_output =
            IF normalized \in DOMAIN normalized_lookup
            THEN ClassificationOutput(normalized_lookup[normalized], <<>>, 100)
            ELSE ClassificationOutput(OTHERS, <<>>, 50)]

IssueResolution(unified, resolution, reason_for_null, legal_basis, confidence, source_citations) ==
    [unified |-> unified, resolution |-> resolution, reason_for_null |-> reason_for_null,
     legal_basis |-> legal_basis, confidence |-> confidence,
     source_citations |-> source_citations]

ResolverOutput(resolutions, overall_confidence, requires_escalation) ==
    [kind |-> "set", resolutions |-> resolutions, overall_confidence |-> overall_confidence,
     requires_escalation |-> requires_escalation]

\* the output of every fallback of the resolver
ResolverFallback == ResolverOutput(<<>>, 0, TRUE)

\* mutant: a state without retrieval output goes to the model all the same
ResolverProcessUnchecked(llm, st) ==
    IF llm.kind = "none"
    THEN [st EXCEPT !.errors = Append(@, "Resolver LLM not initialized"),
                    !.resolver_output = ResolverFallback]
    ELSE IF llm.kind = "raises"
    THEN [st EXCEPT !.errors = Append(@, "resolver failed"),
                    !.resolver_output = ResolverFallback]
    ELSE [st EXCEPT !.resolver_output = llm.output]

\* ResolverAgent.process.  llm as for the preprocessing agent, its output a
\* parsed ResolverOutput
ResolverProcess(llm, st) ==
    IF llm.kind = "none"
    THEN [st EXCEPT !.errors = Append(@, "Resolver LLM not initialized"),
                    !.resolver_output = ResolverFallback]
    ELSE IF st.retrieval_output.kind = "none"
    THEN [st EXCEPT !.errors = Append(@, "No retrieval output available"),
                    !.resolver_output = ResolverFallback]
    ELSE IF st.preprocessing_output.kind = "none"
    THEN [st EXCEPT !.errors = Append(@, "No preprocessing output available"),
                    !.resolver_output = ResolverFallback]
    ELSE IF llm.kind = "raises"
    THEN [st EXCEPT !.errors = Append(@, "resolver failed"),
                    !.resolver_output = ResolverFallback]
    ELSE [st EXCEPT !.resolver_output = llm.output]

\* a text that is None or empty is falsy
Truthy(text) == text # None /\ text # ""

FinalResponse(direct_answer, additional_resources, confidence_score, requires_manual_review) ==
    [kind |-> "set", direct_answer |-> direct_answer,
     additional_resources |-> additional_resources, confidence_score |-> confidence_score,
     requires_manual_review |-> requires_manual_review]

\* direct_answer: the fixed text named by kind; for kind "resolutions" the
\* escalation notice followed by the sections
DirectAnswer(kind, escalation_notice, parts) ==
    [kind |-> kind, escalation_notice |-> escalation_notice, parts |-> parts]

\* resolution_section of one resolution
ResolutionSection(res) ==
    [comprehensive |-> res.unified,
     body |-> IF Truthy(res.resolution) THEN res.resolution
              ELSE IF Truthy(res.reason_for_null) THEN res.reason_for_null
              ELSE "insufficient information",
     legal_basis |-> IF Truthy(res.legal_basis) THEN res.legal_basis ELSE None,
     confidence |-> res.confidence,
     sources |-> Take(res.source_citations, 3)]

\* additional_resources
AdditionalResources(retrieval) ==
    (IF retrieval.local_results # <<>> THEN <<"Knowledge base documentation">> ELSE <<>>)
    \o (IF retrieval.web_results # <<>> THEN <<"Official GST portals">> ELSE <<>>)
    \o (IF retrieval.twitter_results # <<>> THEN <<"Recent GSTN updates">> ELSE <<>>)

\* ResponseGenerationAgent.process
ResponseProcess(st) ==
    LET resolver == st.resolver_output
        retrieval == st.retrieval_output
    IN IF resolver.kind = "none"
       THEN [st EXCEPT !.errors = Append(@, "No resolver output available"),
                       !.final_response =
                           FinalResponse(DirectAnswer("no resolver", FALSE, <<>>), <<>>, 0, TRUE)]
       ELSE IF retrieval.kind = "none"
       THEN [st EXCEPT !.errors = Append(@, "No retrieval output available"),
                       !.final_response =
                           FinalResponse(DirectAnswer("no retrieval", FALSE, <<>>), <<>>, 0, TRUE)]
       ELSE LET parts == [i \in DOMAIN resolver.resolutions |->
                              ResolutionSection(resolver.resolutions[i])]
                direct_answer ==
                    IF parts # <<>>
                    THEN DirectAnswer("resolutions", resolver.requires_escalation, parts)
                    ELSE DirectAnswer("insufficient", resolver.requires_escalation, <<>>)
            IN [st EXCEPT !.final_response =
                    FinalResponse(direct_answer, AdditionalResources(retrieval),
                                  resolver.overall_confidence, resolver.requires_escalation)]

\* mutant: the conditional edge always goes on to the response
ShouldEscalateNever(st) == "continue"

\* should_escalate
ShouldEscalate(st) ==
    IF st.resolver_output.kind # "none" /\ st.resolver_output.requires_escalation
    THEN "escalate" ELSE "continue"

\* handle_escalation: the update it returns
HandleEscalation(st) == [escalation_requested |-> TRUE]

\* the reducer of the errors channel: operator.add
AddErrors(held, returned) == held \o returned

\* the graph's update of its state with the dict a node returned: a key
\* returned replaces the value, but for errors, which has a reducer
Update(held, returned) ==
    [key \in DOMAIN held |->
        IF key \notin DOMAIN returned THEN held[key]
        ELSE IF key = "errors" THEN AddErrors(held.errors, returned.errors)
        ELSE returned[key]]

\* initial_state of process_query (the keys no agent reads left out)
InitialState(query, selected_category) ==
    [user_query |-> Query(query), selected_category |-> selected_category,
     preprocessing_output |-> Absent, classification_output |-> Absent,
     retrieval_output |-> Absent, resolver_output |-> Absent, final_response |-> Absent,
     errors |-> <<>>, escalation_requested |-> FALSE]

SourceCounts(localCount, webCount, twitterCount, llmCount, totalCount) ==
    [localCount |-> localCount, webCount |-> webCount, twitterCount |-> twitterCount,
     llmCount |-> llmCount, totalCount |-> totalCount]

\* the dict process_query returns after app.invoke returned
WorkflowResult(final_state) ==
    LET retrieval_output == final_state.retrieval_output
        has == retrieval_output.kind # "none"
    IN [response |-> IF final_state.final_response.kind # "none"
                     THEN final_state.final_response.direct_answer
                     ELSE DirectAnswer("No response generated", FALSE, <<>>),
        confidence |-> IF final_state.resolver_output.kind # "none"
                       THEN final_state.resolver_output.overall_confidence ELSE 0,
        requires_escalation |-> final_state.escalation_requested,
        sources |-> IF has
                    THEN SourceCounts(Len(retrieval_output.local_results),
                                      Len(retrieval_output.web_results),
                                      Len(retrieval_output.twitter_results),
                                      Len(retrieval_output.llm_reasoning),
                                      retrieval_output.total_sources)
                    ELSE SourceCounts(0, 0, 0, 0, 0),
        detailedSources |-> has,
        errors |-> final_state.errors]

\* a failure dict that says nothing of the sources
WorkflowFailureWithoutSources(message) ==
    [response |-> DirectAnswer("error", FALSE, <<>>), confidence |-> 0,
     requires_escalation |-> TRUE, errors |-> <<message>>]

\* the dict process_query returns when app.invoke raised
WorkflowFailure(message) ==
    [response |-> DirectAnswer("error", FALSE, <<>>), confidence |-> 0,
     requires_escalation |-> TRUE, sources |-> SourceCounts(0, 0, 0, 0, 0),
     errors |-> <<message>>]


(***************************************************************************)
(* Idle values: what a component's variables hold while another            *)
(* component is exercised                                                  *)
(***************************************************************************)
IdleGraph == graph = EmptyGraph /\ gphase = "loaded" /\ related = NoCall
IdleCalls ==
    /\ localCall = NoCall /\ webCall = NoCall /\ twitterCall = NoCall
    /\ llmCall = NoCall
IdleFlow ==
    /\ agents = NoCall /\ state = NoCall /\ wpc = "idle"
    /\ frame = NoCall /\ notified = <<>> /\ result = NoCall

\* an empty dict
EmptyDict == [k \in {} |-> None]

\* the server before its startup
IdleServer ==
    /\ resolver_callback = None /\ active_sessions = EmptyDict /\ agent_progress = EmptyDict
    /\ pending_websocket_messages = EmptyDict /\ websocket_connections = {}
    /\ tasks = EmptyDict /\ websocket_sent = EmptyDict /\ queues = <<>>

(***************************************************************************)
(* Knowledge graph: load() and find_related()                              *)
(***************************************************************************)
InitGraph ==
    /\ graph = EmptyGraph /\ gphase = "nodes" /\ related = NoCall
    /\ IdleCalls /\ IdleFlow /\ IdleServer

\* one row of "SELECT id, type, label, metadata FROM nodes"
LoadNode(n, label) ==
    /\ gphase = "nodes"
    /\ n \notin graph.nodes
    /\ graph' = AddLabelledNode(graph, n, label)
    /\ UNCHANGED <<gphase, related, callVars, flowVars, serverVars>>

\* the node cursor is exhausted, the edge query starts
LoadNodesDone ==
    /\ gphase = "nodes"
    /\ gphase' = "edges"
    /\ UNCHANGED <<graph, related, callVars, flowVars, serverVars>>

\* one row of "SELECT source, target, relation, weight FROM edges"
LoadEdge(u, v, w) ==
    /\ gphase = "edges"
    /\ NumEdges(graph) < MaxEdges
    /\ graph' = AddEdge(graph, u, v, w)
    /\ UNCHANGED <<gphase, related, callVars, flowVars, serverVars>>

\* load() returns
LoadDone ==
    /\ gphase = "edges"
    /\ gphase' = "loaded"
    /\ UNCHANGED <<graph, related, callVars, flowVars, serverVars>>

\* find_related(entity, max_depth, max_results) on the loaded graph
FindRelatedCall(entity, max_depth, max_results) ==
    /\ gphase = "loaded"
    /\ related = NoCall
    /\ related' = [op |-> "find_related", entity |-> entity, max_depth |-> max_depth, max_results |-> max_results,
                   collected |-> IF entity \in graph.nodes
                                 THEN Traverse(graph, <<<<entity, 0>>>>, <<>>, {entity},
                                               max_depth, max_results)
                                 ELSE <<>>,
                   result |-> FindRelated(graph, entity, max_depth, max_results)]
    /\ UNCHANGED <<graph, gphase, callVars, flowVars, serverVars>>

NextGraph ==
    \/ \E n \in GraphNodes : \E label \in Labels(n) : LoadNode(n, label)
    \/ LoadNodesDone
    \/ \E u, v \in GraphNodes, w \in Weights : LoadEdge(u, v, w)
    \/ LoadDone
    \/ \E e \in Seeds, d \in 0..MaxDepth, m \in 0..MaxResults : FindRelatedCall(e, d, m)

SpecGraph == InitGraph /\ [][NextGraph]_vars

\* C7: find_related answers [] for a seed that is no node of the graph and
\* for a seed without outgoing edge, and never lists the seed itself
C7_SeedNeverReturned ==
    related.op = "find_related" =>
        /\ (related.entity \notin graph.nodes => related.result = <<>>)
        /\ (related.entity \in graph.nodes /\ graph.succ[related.entity] = <<>>
                => related.result = <<>>)
        /\ \A i \in DOMAIN related.result : related.result[i].entity # related.entity

\* the seed sits on a cycle (or has a self-loop) and find_related returned entities
C7_Witness ==
    /\ related.op = "find_related"
    /\ related.entity \in graph.nodes
    /\ related.result # <<>>
    /\ \E i \in DOMAIN related.result :
          <<related.result[i].entity, related.entity>> \in DOMAIN graph.weight
    /\ <<related.entity, related.entity>> \in DOMAIN graph.weight

\* the nodes at most k edges away from the nodes of from
RECURSIVE Within(_, _, _)
Within(g, from, k) ==
    IF k = 0 THEN from
    ELSE Within(g, from \cup {v \in g.nodes : \E u \in from : <<u, v>> \in DOMAIN g.weight},
                k - 1)

\* the number of edges of a shortest directed path from seed to the node,
\* which a path of at most limit edges reaches
Distance(g, seed, node, limit) ==
    Least({k \in 1..limit : node \in Within(g, {seed}, k)})

\* C21: what find_related returns has at most max_results entries, holds no
\* entity twice, gives each entry the depth of a shortest directed path from
\* the seed, between 1 and max_depth, and is in descending order of weight,
\* entries of one weight in ascending order of depth.
C21_ResultShape ==
    related.op = "find_related" =>
        /\ Len(related.result) <= related.max_results
        /\ \A i, j \in DOMAIN related.result :
              i # j => related.result[i].entity # related.result[j].entity
        /\ \A i \in DOMAIN related.result :
              /\ related.result[i].depth \in 1..related.max_depth
              /\ related.result[i].entity \in
                    Within(graph, {related.entity}, related.max_depth)
              /\ related.result[i].depth =
                    Distance(graph, related.entity, related.result[i].entity,
                             related.max_depth)
        /\ \A i \in 1..(Len(related.result) - 1) :
              \/ related.result[i].weight > related.result[i + 1].weight
              \/ /\ related.result[i].weight = related.result[i + 1].weight
                 /\ related.result[i].depth <= related.result[i + 1].depth

\* a heavier entity two edges away is returned before a lighter neighbor of
\* the seed, in a graph that also has a longer way to that neighbor
C21_Witness ==
    /\ related.op = "find_related"
    /\ Len(related.result) = 2
    /\ related.result[1].depth = 2 /\ related.result[2].depth = 1
    /\ related.result[1].weight > related.result[2].weight
    /\ <<related.result[1].entity, related.entity>> \in DOMAIN graph.weight

(***************************************************************************)
(* find_related on a loaded graph with two nodes on its first level         *)
(***************************************************************************)
\* the edges table a drawn graph is loaded from: each row present or not
TraverseEdges ==
    <<<<"GST", "CBIC">>, <<"GST", "ITC">>, <<"CBIC", "GSTN">>, <<"ITC", "IGST">>>>

\* load() on the rows chosen: weights[i] is the weight of row i, 0 when the
\* row is not in the table
RECURSIVE Loaded(_, _)
Loaded(weights, n) ==
    IF n = 0 THEN EmptyGraph
    ELSE IF weights[n] = 0 THEN Loaded(weights, n - 1)
    ELSE AddEdge(Loaded(weights, n - 1), TraverseEdges[n][1], TraverseEdges[n][2], weights[n])

InitTraverse ==
    /\ graph \in {Loaded(weights, Len(TraverseEdges)) :
                      weights \in [DOMAIN TraverseEdges -> {0} \cup Weights]}
    /\ gphase = "loaded" /\ related = NoCall
    /\ IdleCalls /\ IdleFlow /\ IdleServer

TraverseSeeds == {"GST", "CBIC", "SGST"}

NextTraverse ==
    \E e \in TraverseSeeds, d \in 0..MaxDepth, m \in 0..MaxResults : FindRelatedCall(e, d, m)

SpecTraverse == InitTraverse /\ [][NextTraverse]_vars

\* C20: the list find_related collects never holds more than max_results
\* entries, and what it returns is the first max_results entities in the
\* order of discovery, sorted.
C20_StopsAtMaxResults ==
    related.op = "find_related" =>
        /\ Len(related.collected) <= related.max_results
        /\ related.result = SortRelated(Take(related.collected, related.max_results), <<>>)

(***************************************************************************)
(* LocalRetrievalAgent.retrieve on drawn inputs                            *)
(***************************************************************************)
\* GST -> ITC (1.0), GST -> CBIC (0.5), CBIC -> GST (0.5)
SampleGraph ==
    AddEdge(AddEdge(AddEdge(EmptyGraph, "GST", "ITC", 1000), "GST", "CBIC", 500),
            "CBIC", "GST", 500)

\* the same edges, after a nodes table that gives ITC its long name as label
LabelledGraph ==
    AddEdge(AddEdge(AddEdge(AddLabelledNode(EmptyGraph, "ITC", InputTaxCredit),
                            "GST", "ITC", 1000), "GST", "CBIC", 500),
            "CBIC", "GST", 500)

GraphRetrievers == {NoGraph, BrokenGraph, Graph(SampleGraph), Graph(LabelledGraph)}

LocalQueries ==
    {<<Tok("word", "", <<"h", "o", "w">>)>>,
     <<Tok("entity", "GST", <<"g", "s", "t">>), Tok("entity", "CBIC", <<"C", "B", "I", "C">>)>>}

FilterCategories == {None, "Payments"}

\* the answers of similarity_search_with_score: distinct documents, any order
Matches ==
    {m \in SeqUpTo(Corpus \X RawScores, MaxDocs) :
        \A i, j \in DOMAIN m : i # j => m[i][1] # m[j][1]}

StoreAnswers == {StoreUnavailable, StoreRaises} \cup {StoreDocs(m) : m \in Matches}

InitLocal ==
    /\ localCall \in
          {[op |-> "args", answer |-> a, gr |-> g, query |-> q, k |-> k,
            filter_category |-> f, use_graph |-> u] :
              a \in StoreAnswers, g \in GraphRetrievers, q \in LocalQueries,
              k \in 1..MaxK, f \in FilterCategories, u \in BOOLEAN}
    /\ (localCall.answer.kind = "docs" =>
            Len(localCall.answer.docs) <= FetchK(localCall.k, localCall.use_graph, localCall.gr))
    /\ webCall = NoCall /\ twitterCall = NoCall /\ llmCall = NoCall
    /\ IdleGraph /\ IdleFlow /\ IdleServer

\* LocalRetrievalAgent.retrieve(query, k, filter_category, use_graph)
LocalRetrieveCall ==
    /\ localCall.op = "args"
    /\ LET r == LocalRetrieve(localCall.answer, localCall.gr, localCall.query, localCall.k,
                              localCall.filter_category, localCall.use_graph)
       IN localCall' = [op |-> "retrieve", answer |-> localCall.answer, gr |-> localCall.gr,
                        query |-> localCall.query, k |-> localCall.k,
                        filter_category |-> localCall.filter_category,
                        use_graph |-> localCall.use_graph,
                        raised |-> r.raised, scored |-> r.scored,
                        vector_results |-> r.vector_results, results |-> r.results]
    /\ UNCHANGED <<webCall, twitterCall, llmCall, graphVars, flowVars, serverVars>>

NextLocal == LocalRetrieveCall

SpecLocal == InitLocal /\ [][NextLocal]_vars

\* C5: every Evidence of LocalRetrievalAgent.retrieve has a (boosted) score
\* below 0.15, and at most k Evidence are returned
C5_BelowThresholdAtMostK ==
    localCall.op = "retrieve" =>
        /\ \A i \in DOMAIN localCall.results : localCall.results[i].relevance_score < 150
        /\ Len(localCall.results) <= localCall.k

\* more than k matches pass the threshold, one of them only thanks to the
\* graph boost, and one match sits exactly on the threshold
C5_Witness ==
    /\ localCall.op = "retrieve"
    /\ localCall.answer.kind = "docs"
    /\ Len(localCall.results) = localCall.k
    /\ Cardinality({i \in DOMAIN localCall.answer.docs : localCall.answer.docs[i][2] < 150})
          >= localCall.k
    /\ \E i \in DOMAIN localCall.answer.docs : localCall.answer.docs[i][2] = 150
    /\ \E i \in DOMAIN localCall.results, j \in DOMAIN localCall.answer.docs :
          /\ localCall.results[i].content = localCall.answer.docs[j][1].page_content
          /\ localCall.answer.docs[j][2] >= 150

\* the boost of the related entities whose label is in the content
RECURSIVE LabelBoost(_, _)
LabelBoost(content, related_entities) ==
    IF related_entities = <<>> THEN 0
    ELSE (IF Contains(LowerStr(content), LowerStr(Head(related_entities).label))
          THEN Head(related_entities).weight \div 10 ELSE 0)
         + LabelBoost(content, Tail(related_entities))

\* C22: with use_graph and a graph loaded, the score of each candidate
\* before the sort is its raw distance less 0.1 times the weights of the
\* related entities of the query whose label is in its content; when the
\* graph lookup raises it is the raw distance.
C22_BoostByLabel ==
    (localCall.op = "retrieve" /\ localCall.answer.kind = "docs"
        /\ localCall.use_graph /\ localCall.gr.kind # "none") =>
        /\ Len(localCall.scored)
              = Len(VectorResults(localCall.answer.docs, localCall.filter_category))
        /\ \A i \in DOMAIN localCall.scored :
              localCall.scored[i].score
                = VectorResults(localCall.answer.docs, localCall.filter_category)[i].score
                  - (IF localCall.gr.kind = "broken" THEN 0
                     ELSE LabelBoost(localCall.scored[i].content,
                                     RelatedEntities(localCall.gr.g,
                                                     ExtractEntities(localCall.query))))

\* C6: with filter_category set, every Evidence returned is built from an
\* index match whose metadata category equals the filter
C6_CategoryFilter ==
    (localCall.op = "retrieve" /\ localCall.filter_category # None) =>
        /\ Len(localCall.results) = Len(localCall.vector_results)
        /\ \A i \in DOMAIN localCall.results :
              /\ localCall.results[i] = LocalSource(localCall.vector_results[i])
              /\ localCall.vector_results[i].metadata.category = localCall.filter_category
              /\ \E j \in DOMAIN localCall.answer.docs :
                    /\ localCall.answer.docs[j][1].metadata = localCall.vector_results[i].metadata
                    /\ localCall.answer.docs[j][1].page_content = localCall.vector_results[i].content

\* the index answered with matches of another category and without category
\* whose score passes, next to a match of the filter's category that is returned
C6_Witness ==
    /\ localCall.op = "retrieve"
    /\ localCall.filter_category # None
    /\ localCall.results # <<>>
    /\ \E j \in DOMAIN localCall.answer.docs :
          /\ localCall.answer.docs[j][1].metadata.category = "Refunds"
          /\ localCall.answer.docs[j][2] < 150
    /\ \E j \in DOMAIN localCall.answer.docs :
          /\ localCall.answer.docs[j][1].metadata.category = None
          /\ localCall.answer.docs[j][2] < 150

(***************************************************************************)
(* WebRetrievalAgent.retrieve and retrieve_tavily on drawn inputs          *)
(***************************************************************************)
FormToken(digit, n) == Tok("form", "", <<"G", "S", "T", "R">> \o Rep(digit, n))

WebQueries ==
    {<<Tok("word", "", <<"h", "e", "l", "p">>)>>,
     <<Tok("form", "GSTR-1", <<"G", "S", "T", "R", "-", "1">>),
       Tok("keyword", "late fee", <<"l", "a", "t", "e", " ", "f", "e", "e">>),
       Tok("keyword", "ITC", <<"I", "T", "C">>),
       Tok("fy", "", <<"F", "Y", "2", "0", "2", "3", "-", "2", "4">>)>>,
     <<FormToken("9", 200), FormToken("8", 200),
       Tok("keyword", "refund", <<"r", "e", "f", "u", "n", "d">>)>>,
     <<FormToken("7", 500)>>}

WebKeywordLists ==
    {<<>>,
     <<<<"g", "s", "t">>, <<"l", "a", "t", "e", " ", "f", "e", "e">>>>,
     [i \in 1..6 |-> Rep("k", 100)],
     <<Rep("k", 450)>>}

WebCategories == {None, "gstr_filing", "Payments"}

WebLLMs ==
    {NoLLM, LLMRaises,
     LLMText(<<" ", "G", "S", "T", "R", "-", "1", " ", "f", "e", "e", "\n">>),
     LLMText(<<" ">> \o Rep("a", 300) \o <<" ">> \o Rep("b", 300))}

WebProviders ==
    {[client |-> FALSE, provider |-> "none"], [client |-> TRUE, provider |-> "tavily"],
     [client |-> FALSE, provider |-> "tavily"], [client |-> TRUE, provider |-> "duckduckgo"]}

WebAgents ==
    {[client |-> p.client, provider |-> p.provider, llm |-> l, unrestricted |-> u] :
        p \in WebProviders, l \in WebLLMs, u \in BOOLEAN}

WebHits ==
    {Hit(<<"a">>, "https://a", TRUE, 600), Hit(<<"b">>, "https://b", TRUE, 500),
     Hit(<<"c">>, "https://c", FALSE, 0), Hit(<<>>, "https://d", TRUE, 900)}

SearchAnswers == {SearchRaises} \cup {SearchHits(h) : h \in SeqUpTo(WebHits, MaxWebHits)}

InitWeb ==
    /\ webCall \in
          {[op |-> "args", web |-> w, query |-> q, category |-> c, keywords |-> k,
            search |-> a] :
              w \in WebAgents, q \in WebQueries, c \in WebCategories,
              k \in WebKeywordLists, a \in SearchAnswers}
    /\ localCall = NoCall /\ twitterCall = NoCall /\ llmCall = NoCall
    /\ IdleGraph /\ IdleFlow /\ IdleServer

WebDone(op, r) ==
    [op |-> op, web |-> webCall.web, query |-> webCall.query, category |-> webCall.category,
     keywords |-> webCall.keywords, search |-> webCall.search,
     raised |-> r.raised, searched |-> r.searched, sent |-> r.sent, built |-> r.built,
     results |-> r.results]

\* WebRetrievalAgent.retrieve(query, category, keywords, max_results)
WebRetrieveCall ==
    /\ webCall.op = "args"
    /\ webCall' = WebDone("retrieve",
                          WebRetrieve(webCall.web, webCall.query, webCall.category,
                                      webCall.keywords, webCall.search))
    /\ UNCHANGED <<localCall, twitterCall, llmCall, graphVars, flowVars, serverVars>>

\* WebRetrievalAgent.retrieve_tavily(query, max_results) called with the raw text
RetrieveTavilyCall ==
    /\ webCall.op = "args"
    /\ webCall.web.client
    /\ webCall' = WebDone("retrieve_tavily",
                          RetrieveTavily(QueryText(webCall.query), webCall.search))
    /\ UNCHANGED <<localCall, twitterCall, llmCall, graphVars, flowVars, serverVars>>

NextWeb == WebRetrieveCall \/ RetrieveTavilyCall

SpecWeb == InitWeb /\ [][NextWeb]_vars

\* C8: the query handed to the search provider is at most 400 characters long
C8_QueryWithinLimit ==
    (webCall.op \in {"retrieve", "retrieve_tavily"} /\ webCall.searched) =>
        Len(webCall.sent) <= 400

\* a search was made for a grievance text, or a model answer, of more than 400 characters
C8_Witness ==
    /\ webCall.op = "retrieve"
    /\ webCall.searched
    /\ Len(webCall.sent) = 350
    /\ Len(QueryText(webCall.query)) > 400
    /\ webCall.web.llm.kind = "text"
    /\ Len(webCall.web.llm.text) > 400

\* C9: every Evidence of the web agent stands for a provider result scoring
\* above 0.5 and carries that score; results scoring 0.5 or less, or without
\* score, are not returned
C9_WebScoreFilter ==
    (webCall.op \in {"retrieve", "retrieve_tavily"} /\ webCall.search.kind = "hits") =>
        /\ \A i \in DOMAIN webCall.results :
              \E j \in DOMAIN webCall.search.hits :
                 LET hit == webCall.search.hits[j] IN
                 /\ hit.has_score /\ hit.score > 500
                 /\ webCall.results[i].relevance_score = hit.score
                 /\ webCall.results[i].citation = hit.url
                 /\ webCall.results[i].content = hit.content
        /\ \A j \in DOMAIN webCall.search.hits :
              LET hit == webCall.search.hits[j] IN
              (~hit.has_score \/ hit.score <= 500) =>
                  \A i \in DOMAIN webCall.results : webCall.results[i].citation # hit.url

\* the provider answered with a result above 0.5 and one at 0.5 or without score
C9_Witness ==
    /\ webCall.op = "retrieve"
    /\ webCall.search.kind = "hits"
    /\ webCall.results # <<>>
    /\ Len(webCall.results) < Len(webCall.search.hits)

TwitterKeywords ==
    {<<"g", "s", "t">>,
     <<"f", "e", "e", " ", "a", "n", "d", " ", "t", "a", "x">>,
     <<"O", "R">>}

Tweets ==
    {Tweet(<<"n", "e", "w", "s">>, "2025-01-01", TRUE, TRUE, 250),
     Tweet(<<"t", "i", "p">>, "2025-01-02", TRUE, FALSE, 0),
     Tweet(<<>>, "2025-01-03", TRUE, TRUE, 40),
     Tweet(<<"x">>, "2025-01-04", FALSE, TRUE, 10)}

Feeds == {FeedRaises, FeedEmpty} \cup {FeedTweets(t) : t \in SeqUpTo(Tweets, MaxTweets)}

InitTwitter ==
    /\ twitterCall \in
          {[op |-> "args", client |-> c, keywords |-> k, feed |-> f] :
              c \in BOOLEAN, k \in SeqUpTo(TwitterKeywords, MaxKeywords), f \in Feeds}
    /\ localCall = NoCall /\ webCall = NoCall /\ llmCall = NoCall
    /\ IdleGraph /\ IdleFlow /\ IdleServer

\* TwitterRetrievalAgent.retrieve(keywords, max_results)
TwitterRetrieveCall ==
    /\ twitterCall.op = "args"
    /\ LET r == TwitterRetrieve(twitterCall.client, twitterCall.keywords, twitterCall.feed)
       IN twitterCall' = [op |-> "retrieve", client |-> twitterCall.client,
                          keywords |-> twitterCall.keywords, feed |-> twitterCall.feed,
                          raised |-> r.raised, searched |-> r.searched, sent |-> r.sent,
                          results |-> r.results]
    /\ UNCHANGED <<localCall, webCall, llmCall, graphVars, flowVars, serverVars>>

NextTwitter == TwitterRetrieveCall

SpecTwitter == InitTwitter /\ [][NextTwitter]_vars

\* the account scope of the query: from:Infosys_GSTN
AccountScope ==
    <<"f", "r", "o", "m", ":", "I", "n", "f", "o", "s", "y", "s", "_", "G", "S", "T", "N">>

\* "k1" OR "k2" OR ... : each keyword between double quotes, in input order
RECURSIVE QuotedDisjunction(_)
QuotedDisjunction(keywords) ==
    IF Len(keywords) = 1 THEN <<"\"">> \o keywords[1] \o <<"\"">>
    ELSE <<"\"">> \o keywords[1] \o <<"\"", " ", "O", "R", " ">>
         \o QuotedDisjunction(Tail(keywords))

\* C10: the query sent to the provider is the account scope followed by the
\* parenthesised, individually quoted keywords joined by OR; without keywords
\* it is the account scope alone
C10_QuotedKeywords ==
    (twitterCall.op = "retrieve" /\ twitterCall.searched) =>
        IF twitterCall.keywords = <<>>
        THEN twitterCall.sent = AccountScope
        ELSE twitterCall.sent =
                AccountScope \o <<" ", "(">> \o QuotedDisjunction(twitterCall.keywords) \o <<")">>

\* a query was sent for several keywords, one of them holding the word "and"
\* and one being the operator word OR itself
C10_Witness ==
    /\ twitterCall.op = "retrieve"
    /\ twitterCall.searched
    /\ Len(twitterCall.keywords) >= 2
    /\ \E i \in DOMAIN twitterCall.keywords : twitterCall.keywords[i] = <<"O", "R">>
    /\ \E i \in DOMAIN twitterCall.keywords : Len(twitterCall.keywords[i]) > 3

(***************************************************************************)
(* LLMReasoningAgent.retrieve on drawn responses                           *)
(***************************************************************************)
MaxIssues == 2          \* core issues handed to the reasoning agent

\* the core issues of a query, n of them
Issues(n) ==
    [i \in 1..n |-> CoreIssue(<<"i", "s", "s", "u", "e", " ">> \o NumText(i), <<<<"g", "s", "t">>>>, i)]

\* the marker the prompt asks the model to put before analysis i
Marker(i) == <<"I", "s", "s", "u", "e", " ", "#">> \o NumText(i) \o <<":", " ">>

\* the letter analysis i is written in
Letter(i) == <<"a", "b", "c", "d", "e">>[i]

IntroLengths == {0, 5, 50, 51}
AnalysisLengths == {3, 50, 51, 60}
PlainLengths == {40, 100, 299, 301, 650}

\* a marked response: the introduction, then each analysis on a paragraph
\* of its own behind its marker
Marked(intro, analyses) ==
    intro \o Concat([i \in DOMAIN analyses |->
                        <<"\n", "\n">> \o Marker(i) \o analyses[i]])

\* the analyses of a marked response for n issues, each of a length drawn
AnalysesFor(n) ==
    {[i \in 1..n |-> Rep(Letter(i), lens[i])] : lens \in [1..n -> AnalysisLengths]}

\* the calls tried: marked responses, responses without any marker (analyses
\* is empty and the response is intro), and a model that gives no text or
\* white space only
ReasoningCalls ==
    {[op |-> "args", core_issues |-> Issues(Len(a)), intro |-> Rep("x", il), analyses |-> a,
      llm |-> LLMText(Marked(Rep("x", il), a))] :
        il \in IntroLengths, a \in UNION {AnalysesFor(n) : n \in 1..MaxIssues}}
    \cup {[op |-> "args", core_issues |-> Issues(n), intro |-> Rep("z", pl), analyses |-> <<>>,
           llm |-> LLMText(Rep("z", pl))] :
             pl \in PlainLengths, n \in 1..MaxIssues}
    \cup {[op |-> "args", core_issues |-> Issues(n), intro |-> <<>>, analyses |-> <<>>,
           llm |-> l] :
             l \in {NoLLM, LLMRaises, [kind |-> "empty"], LLMText(<<" ", "\n">>)},
             n \in 0..MaxIssues}

InitReasoning ==
    /\ llmCall \in ReasoningCalls
    /\ localCall = NoCall /\ webCall = NoCall /\ twitterCall = NoCall
    /\ IdleGraph /\ IdleFlow /\ IdleServer

\* the record of a call that has returned
ReasoningDone(call, r) ==
    [op |-> "retrieve", core_issues |-> call.core_issues, intro |-> call.intro,
     analyses |-> call.analyses, llm |-> call.llm, raised |-> r.raised,
     results |-> r.results]

\* LLMReasoningAgent.retrieve(core_issues, entities)
LLMRetrieveCall ==
    /\ llmCall.op = "args"
    /\ llmCall' = ReasoningDone(llmCall, LLMRetrieve(llmCall.llm, llmCall.core_issues))
    /\ UNCHANGED <<localCall, webCall, twitterCall, graphVars, flowVars, serverVars>>

NextReasoning == LLMRetrieveCall

SpecReasoning == InitReasoning /\ [][NextReasoning]_vars

\* retrieve has returned for a response marked for each of its issues
MarkedReturned ==
    /\ llmCall.op = "retrieve"
    /\ llmCall.llm.kind = "text"
    /\ llmCall.analyses # <<>>

\* C11: for a response of optional introduction and N analyses, the i-th
\* behind the marker "Issue #i:", retrieve returns exactly N items, none
\* empty, the i-th cited as issue i and holding the i-th analysis.
C11_MarkedResponseSplit ==
    MarkedReturned =>
        /\ Len(llmCall.results) = Len(llmCall.core_issues)
        /\ \A i \in DOMAIN llmCall.results :
              /\ llmCall.results[i].content # <<>>
              /\ llmCall.results[i].citation = <<"Reasoning LLM Analysis - Issue", i>>
              /\ Contains(llmCall.results[i].content, llmCall.analyses[i])

\* the parts of more than 50 characters pattern pat gives
PatternParts(pat, text) == SelectSeq(StripNonEmpty(Split(pat, text)), Substantial)

\* no pattern and no header pattern gives as many parts as there are issues
NoStrategySucceeds(text, expected_issues) ==
    /\ \A pat \in 1..NumPatterns : Len(PatternParts(pat, text)) < expected_issues
    /\ \A h \in 1..2 : Len(HeaderParts(h, text)) < expected_issues

\* retrieve has returned for a response left to the equal portions
FallbackReturned ==
    /\ llmCall.op = "retrieve"
    /\ llmCall.llm.kind = "text"
    /\ llmCall.core_issues # <<>>
    /\ Strip(llmCall.llm.text) # <<>>
    /\ NoStrategySucceeds(Strip(llmCall.llm.text), Len(llmCall.core_issues))

\* C12: for N >= 1 issues and a non-empty response that no marker, list or
\* header strategy splits into N parts of more than 50 characters, retrieve
\* returns exactly N items, none empty, whatever the length of the response.
C12_ChunkFallbackYieldsN ==
    FallbackReturned =>
        /\ Len(llmCall.results) = Len(llmCall.core_issues)
        /\ \A i \in DOMAIN llmCall.results : llmCall.results[i].content # <<>>

\* retrieve has returned for at least one issue and a response with text left
\* after trimming
TextReturned ==
    /\ llmCall.op = "retrieve"
    /\ llmCall.llm.kind = "text"
    /\ Strip(llmCall.llm.text) # <<>>
    /\ Len(llmCall.core_issues) >= 1

\* the analyses the split of the response is turned into
SplitSources(call) ==
    AnalysisSources(SplitCombinedAnalysis(Strip(call.llm.text), Len(call.core_issues)),
                    call.core_issues, 0)

\* C24: retrieve never returns more items than there are issues and every
\* item has relevance 0.8; for at least one issue and a response with text
\* left after trimming it returns at least one item, and when the split gives
\* no usable analysis exactly one item, cited as the combined analysis.
C24_BoundedNeverEmpty ==
    llmCall.op = "retrieve" =>
        /\ Len(llmCall.results) <= Len(llmCall.core_issues)
        /\ \A i \in DOMAIN llmCall.results : llmCall.results[i].relevance_score = 800
        /\ TextReturned =>
              /\ Len(llmCall.results) >= 1
              /\ SplitSources(llmCall) = <<>> =>
                    /\ Len(llmCall.results) = 1
                    /\ llmCall.results[1].citation = <<"Reasoning LLM Analysis - Combined", 0>>

\* retrieve has returned one item for two issues and a response with text
C24_Witness ==
    /\ TextReturned
    /\ Len(llmCall.core_issues) = 2
    /\ Len(llmCall.results) = 1
    /\ llmCall.results[1].relevance_score = 800

(***************************************************************************)
(* The orchestrator called on a state, and process_query                   *)
(***************************************************************************)
FlowQueries ==
    {<<Tok("word", "", <<"h", "o", "w">>)>>,
     <<Tok("entity", "GST", <<"g", "s", "t">>), Tok("keyword", "refund", <<"r", "e", "f", "u", "n", "d">>)>>}

SampleIssues ==
    <<CoreIssue(<<"l", "a", "t", "e", " ", "f", "e", "e">>, <<<<"f", "e", "e">>, <<"G", "S", "T", "R", "-", "3", "B">>>>, 1), CoreIssue(<<"r", "e", "f", "u", "n", "d">>, <<<<"r", "e", "f", "u", "n", "d">>>>, 2)>>

SamplePreprocessing == PreprocessingOutput(SampleIssues, <<ExtractedEntity(<<"G", "S", "T", "I", "N">>)>>)

\* what the timeline search answers: an exception, nothing, two tweets
FlowFeeds ==
    {FeedRaises, FeedEmpty,
     FeedTweets(<<Tweet(<<"n", "e", "w", "s">>, "2025-01-01", TRUE, TRUE, 250),
                  Tweet(<<"t", "i", "p">>, "2025-01-02", TRUE, FALSE, 0)>>)}

\* what the vector search answers: an exception, nothing, two documents
FlowStores ==
    {StoreRaises, StoreDocs(<<>>),
     StoreDocs(<<<<Doc(<<"I", "t", "c">>, "act.pdf", "1", "Payments"), 100>>,
                 <<Doc(<<"g", "s", "t", " ", "C", "B", "I", "C">>, "rules.pdf", "2", "Refunds"),
                   240>>>>)}

\* what the web search answers: an exception, nothing, two results, one of
\* them without text
FlowSearches ==
    {SearchRaises, SearchHits(<<>>),
     SearchHits(<<Hit(<<"a">>, "https://a", TRUE, 600), Hit(<<>>, "https://b", TRUE, 900)>>)}

\* what the reasoning model answers: an exception, an empty text, a text
\* with a marker for each of two issues
FlowModels ==
    {LLMRaises, LLMText(<<>>),
     LLMText(<<"I", "s", "s", "u", "e", " ", "#", "1", ":", " ">> \o Rep("a", 60) \o <<" ", "I", "s", "s", "u", "e", " ", "#", "2", ":", " ">> \o Rep("b", 60))}

Orchestrators ==
    {[status_callback |-> c,
      twitter |-> [client |-> TRUE, feed |-> f],
      local |-> [answer |-> a, gr |-> Graph(SampleGraph)],
      web |-> [agent |-> [client |-> TRUE, provider |-> "tavily", llm |-> NoLLM,
                          unrestricted |-> WEB_SEARCH_UNRESTRICTED],
               search |-> w],
      llm |-> m] :
        c \in {"absent", "ok", "raising"}, f \in FlowFeeds, a \in FlowStores,
        w \in FlowSearches, m \in FlowModels}

Output(output) == [kind |-> "output", output |-> output]

\* answers of the resolver model: confident, escalating, one whose flag
\* does not follow from its confidence, and one on each side of the threshold
ResolverAnswers ==
    {ResolverOutput(<<IssueResolution(TRUE, "file the return", None, "section 47", 97,
                                      <<"act.pdf">>)>>, 97, FALSE),
     ResolverOutput(<<IssueResolution(FALSE, None, "no source", None, 60, <<>>)>>, 60, TRUE),
     ResolverOutput(<<>>, 60, FALSE),
     ResolverOutput(<<IssueResolution(TRUE, "pay the late fee", None, "section 47", 94,
                                      <<"act.pdf">>)>>, 94, FALSE),
     ResolverOutput(<<IssueResolution(TRUE, "claim the refund", None, "section 54", 95,
                                      <<"rules.pdf">>)>>, 95, FALSE)}

Workflow(progress_callback, missing, preprocessor_llm, resolver_llm) ==
    [kind |-> "set", progress_callback |-> progress_callback, missing |-> missing,
     preprocessor_llm |-> preprocessor_llm, resolver_llm |-> resolver_llm]

AgentNames == {"preprocessing", "classification", "retrieval", "resolver", "response_generation"}

\* the workflows create_workflow can leave: progress_callback as
\* status_callback; missing: the agent whose constructor raised, or "none"
Workflows ==
    LET pre == Output(SamplePreprocessing)
        res == Output(CHOOSE r \in ResolverAnswers : r.overall_confidence = 97)
    IN {Workflow(c, "none", pre, res) : c \in {"absent", "ok", "raising"}}
       \cup {Workflow("ok", a, pre, res) : a \in AgentNames}
       \cup {Workflow("ok", "none", l, res) :
                l \in {NoLLM, LLMRaises, Output(PreprocessingOutput(<<>>, <<>>))}}
       \cup {Workflow("ok", "none", pre, l) :
                l \in {NoLLM, LLMRaises} \cup {Output(r) : r \in ResolverAnswers}}

SelectedCategories == {Absent, [kind |-> "set", text |-> <<" ", "r", "e", "f", "u", "n", "d", "-", "E", "X", "P", "O", "R", "T", "S">>],
                       [kind |-> "set", text |-> <<"G", "S", "T", " ", "P", "o", "r", "t", "a", "l">>]}

\* the states process is called on directly
DirectStates ==
    {[user_query |-> q, selected_category |-> Absent,
      preprocessing_output |-> p, classification_output |-> c,
      retrieval_output |-> Absent, resolver_output |-> Absent, final_response |-> Absent,
      errors |-> e, escalation_requested |-> FALSE] :
        q \in {Absent} \cup {Query(x) : x \in FlowQueries},
        p \in {Absent, SamplePreprocessing},
        c \in {Absent, ClassificationOutput(<<"R", "e", "f", "u", "n", "d", " ", "-", " ", "E", "x", "p", "o", "r", "t", "s">>, <<>>, 100)},
        e \in {<<>>, <<"earlier error">>}}

Init ==
    /\ agents \in {[orchestrator |-> o, workflow |-> w] :
                      o \in Orchestrators, w \in {Absent} \cup Workflows}
    /\ (agents.workflow.kind = "set" => agents.orchestrator.status_callback = "absent")
    /\ state = NoCall /\ wpc = "idle" /\ frame = NoCall /\ notified = <<>> /\ result = NoCall
    /\ IdleGraph /\ IdleCalls /\ IdleServer

\* the record kept of a call of RetrievalOrchestratorAgent.process
Frame(input, out) ==
    [op |-> "process", input |-> input, output |-> out.state, raised |-> out.raised,
     calls |-> out.calls, notified |-> out.notified]

\* the call of process returned (or raised) with outcome out
ProcessDone(st, out) ==
    /\ frame' = Frame(st, out)
    /\ state' = out.state
    /\ notified' = out.notified

\* RetrievalOrchestratorAgent.process(state) called by a caller of its own
DirectProcess(st) ==
    /\ wpc = "idle" /\ frame = NoCall /\ agents.workflow.kind = "none"
    /\ ProcessDone(st, OrchestratorProcess(agents.orchestrator, st))
    /\ UNCHANGED <<agents, wpc, result, graphVars, callVars, serverVars>>

\* process_query up to app.invoke
ProcessQuery(query, selected_category) ==
    /\ wpc = "idle" /\ frame = NoCall /\ agents.workflow.kind = "set"
    /\ state' = InitialState(query, selected_category)
    /\ wpc' = "preprocessing"
    /\ UNCHANGED <<agents, frame, notified, result, graphVars, callVars, serverVars>>

\* _update_progress: what the progress callback receives
Progress(wf, value) == IF wf.progress_callback = "absent" THEN <<>> ELSE <<value>>

\* the exception a node wrapper raises before its agent has returned: the
\* progress callback raised, or the agent is None
NodeRaises(wf, node) ==
    IF wf.progress_callback = "raising" THEN "progress callback raised"
    ELSE IF wf.missing = node THEN "'NoneType' object has no attribute 'process'"
    ELSE None

\* a node wrapper and the edge out of it.  returned: what the agent
\* returns; next: the node the edge leads to, "END" for the end of the graph;
\* raised: the exception leaving the node, None for none.  An exception
\* leaves app.invoke and process_query returns its failure dict; at END it
\* returns the result built from the final state.
RunNode(node, progress, raised, returned, next) ==
    /\ wpc = node
    /\ notified' = notified \o Progress(agents.workflow, progress)
    /\ IF raised # None
       THEN /\ wpc' = "returned"
            /\ result' = WorkflowFailure(raised)
            /\ UNCHANGED state
       ELSE /\ state' = Update(state, returned)
            /\ IF next = "END"
               THEN wpc' = "returned" /\ result' = WorkflowResult(Update(state, returned))
               ELSE wpc' = next /\ UNCHANGED result
    /\ UNCHANGED <<agents, graphVars, callVars, serverVars>>

PreprocessingNode ==
    /\ wpc = "preprocessing"
    /\ RunNode("preprocessing", 200, NodeRaises(agents.workflow, "preprocessing"),
               PreprocessingProcess(agents.workflow.preprocessor_llm, state),
               "classification")
    /\ UNCHANGED frame

ClassificationNode ==
    /\ wpc = "classification"
    /\ \E normalized_lookup \in NormalizedLookups :
          RunNode("classification", 400, NodeRaises(agents.workflow, "classification"),
                  ClassificationProcess(normalized_lookup, state), "retrieval")
    /\ UNCHANGED frame

\* the retrieval node whose agent is there; out: what process did
RetrievalRuns(out) ==
    /\ RunNode("retrieval", 600, IF out.raised THEN "status callback raised" ELSE None,
               out.state, "resolver")
    /\ frame' = Frame(state, out)

RetrievalNode ==
    /\ wpc = "retrieval"
    /\ IF NodeRaises(agents.workflow, "retrieval") # None
       THEN /\ RunNode("retrieval", 600, NodeRaises(agents.workflow, "retrieval"), state,
                       "resolver")
            /\ UNCHANGED frame
       ELSE RetrievalRuns(OrchestratorProcess(agents.orchestrator, state))

\* the resolver node and the conditional edge should_escalate chooses
ResolverReturns(returned) ==
    RunNode("resolver", 800, NodeRaises(agents.workflow, "resolver"), returned,
            IF ShouldEscalate(Update(state, returned)) = "escalate"
            THEN "escalation" ELSE "response_generation")

ResolverNode ==
    /\ wpc = "resolver"
    /\ ResolverReturns(ResolverProcess(agents.workflow.resolver_llm, state))
    /\ UNCHANGED frame

ResponseGenerationNode ==
    /\ wpc = "response_generation"
    /\ RunNode("response_generation", 1000,
               NodeRaises(agents.workflow, "response_generation"),
               ResponseProcess(state), "END")
    /\ UNCHANGED frame

EscalationNode ==
    /\ wpc = "escalation"
    /\ RunNode("escalation", 900, NodeRaises(agents.workflow, "escalation"),
               HandleEscalation(state), "END")
    /\ UNCHANGED frame

Next ==
    \/ \E st \in DirectStates : DirectProcess(st)
    \/ \E query \in FlowQueries, selected_category \in SelectedCategories :
          ProcessQuery(query, selected_category)
    \/ PreprocessingNode
    \/ ClassificationNode
    \/ RetrievalNode
    \/ ResolverNode
    \/ ResponseGenerationNode
    \/ EscalationNode

Spec == Init /\ [][Next]_vars

Sources == {"twitter", "local", "web", "llm"}

\* the sequence of a source in a bundle
SourceResults(bundle, source) ==
    CASE source = "twitter" -> bundle.twitter_results
      [] source = "local" -> bundle.local_results
      [] source = "web" -> bundle.web_results
      [] source = "llm" -> bundle.llm_reasoning

\* the external call of a source raises
SourceFails(ag, source) ==
    CASE source = "twitter" -> ag.twitter.feed.kind = "raises"
      [] source = "local" -> ag.local.answer.kind = "raises"
      [] source = "web" -> ag.web.search.kind = "raises"
      [] source = "llm" -> ag.llm.kind = "raises"

\* process has been called on a state
Processed == frame.op = "process"

\* ... on a state that lets it come to its retrievers and through them
ProcessedSources ==
    /\ Processed
    /\ frame.input.preprocessing_output.kind = "set"
    /\ frame.input.user_query.kind = "set"

\* ... on a state the try block raises on: user_query is missing
ProcessedException ==
    /\ Processed
    /\ frame.input.preprocessing_output.kind = "set"
    /\ frame.input.user_query.kind = "none"

AllEmpty(bundle) == \A source \in Sources : SourceResults(bundle, source) = <<>>

\* C1: the bundle process stores has total_sources equal to the sum of the
\* lengths of its four sequences, whatever each retriever did; on the
\* missing-preprocessing path and on the internal-exception path the four
\* sequences are empty and the total is 0.
C1_TotalIsSum ==
    Processed =>
        /\ frame.output.retrieval_output.kind = "set"
        /\ frame.output.retrieval_output.total_sources
             = Len(frame.output.retrieval_output.twitter_results)
               + Len(frame.output.retrieval_output.local_results)
               + Len(frame.output.retrieval_output.web_results)
               + Len(frame.output.retrieval_output.llm_reasoning)
        /\ (frame.input.preprocessing_output.kind = "none" \/ ProcessedException)
              => /\ AllEmpty(frame.output.retrieval_output)
                 /\ frame.output.retrieval_output.total_sources = 0

\* every retriever gave results and the total counts them all
C1_Witness ==
    /\ Processed
    /\ \A source \in Sources : SourceResults(frame.output.retrieval_output, source) # <<>>
    /\ frame.output.retrieval_output.total_sources >= 5

\* C2: whichever of the four external calls raise, process does not raise,
\* the sequence of each failed source is empty, the sequence of every other
\* source is exactly what its retriever returned, and the errors list is as
\* it was.
C2_SourceFailuresSwallowed ==
    ProcessedSources =>
        /\ ~frame.raised
        /\ frame.output.retrieval_output.kind = "set"
        /\ \A source \in Sources :
              IF SourceFails(agents.orchestrator, source)
              THEN SourceResults(frame.output.retrieval_output, source) = <<>>
              ELSE /\ frame.calls[source].ran
                   /\ SourceResults(frame.output.retrieval_output, source)
                        = frame.calls[source].results
        /\ frame.output.errors = frame.input.errors

\* the model call failed after the timeline search had given its tweets
C2_Witness ==
    /\ ProcessedSources
    /\ SourceFails(agents.orchestrator, "llm")
    /\ ~SourceFails(agents.orchestrator, "twitter")
    /\ Len(frame.output.retrieval_output.twitter_results) = 2
    /\ frame.output.retrieval_output.llm_reasoning = <<>>

\* C3: called on a state without preprocessing_output, process does not
\* raise, stores a bundle of four empty sequences and total 0, and appends
\* exactly one message to the errors list.
C3_MissingPreprocessing ==
    (Processed /\ frame.input.preprocessing_output.kind = "none") =>
        /\ ~frame.raised
        /\ frame.output.retrieval_output = EmptyRetrievalOutput
        /\ Len(frame.output.errors) = Len(frame.input.errors) + 1
        /\ Take(frame.output.errors, Len(frame.input.errors)) = frame.input.errors

\* no preprocessing output, an error already on the list, a callback that raises
C3_Witness ==
    /\ Processed
    /\ frame.input.preprocessing_output.kind = "none"
    /\ frame.input.errors # <<>>
    /\ agents.orchestrator.status_callback = "raising"
    /\ Len(frame.output.errors) = 2

\* a bundle with its four sequences and its total
BundlePresent(st) ==
    /\ st.retrieval_output.kind = "set"
    /\ {"twitter_results", "local_results", "web_results", "llm_reasoning", "total_sources"}
          \subseteq DOMAIN st.retrieval_output

\* a result with its source counts and its errors list
ResultPresent ==
    /\ {"sources", "errors"} \subseteq DOMAIN result
    /\ DOMAIN result.sources
          = {"localCount", "webCount", "twitterCount", "llmCount", "totalCount"}
    /\ \A count \in DOMAIN result.sources : result.sources[count] \in Nat
    /\ result.errors \in Seq(STRING)

\* how far a query is on its way through the graph
Rank(pc) ==
    CASE pc = "idle" -> 0
      [] pc = "preprocessing" -> 1
      [] pc = "classification" -> 2
      [] pc = "retrieval" -> 3
      [] pc = "resolver" -> 4
      [] pc \in {"response_generation", "escalation"} -> 5
      [] pc = "returned" -> 6

\* C4: every call of process leaves a bundle in retrieval_output without
\* raising; every process_query that has returned has given a result holding
\* the source counts and an errors list, also when a node of the workflow
\* raised; and each step of a query takes it further along the graph, so no
\* query goes round.
C4_CallerGetsResult ==
    /\ [](Processed => ~frame.raised /\ BundlePresent(frame.output))
    /\ [](wpc = "returned" => ResultPresent)
    /\ [][Rank(wpc') > Rank(wpc)]_wpc

\* process had stored its bundle, the resolver node raised, a result came back
C4_Witness ==
    /\ wpc = "returned"
    /\ agents.workflow.missing = "resolver"
    /\ Processed
    /\ result.errors # <<>>
    /\ result.sources.totalCount = 0

\* the resolver node has run and the conditional edge has chosen
Decided ==
    /\ wpc \in {"response_generation", "escalation"}
    /\ state.resolver_output.kind = "set"

\* C13: at the escalation decision, an overall_confidence below 95 comes with
\* every resolution null and requires_escalation true, and the workflow goes to
\* escalation; from 95 on the resolver's resolutions are kept as the model
\* gave them, requires_escalation is false and the workflow goes on to the
\* response.
C13_EscalationGate ==
    Decided =>
        IF state.resolver_output.overall_confidence < MIN_CONFIDENCE_THRESHOLD
        THEN /\ \A i \in DOMAIN state.resolver_output.resolutions :
                   state.resolver_output.resolutions[i].resolution = None
             /\ state.resolver_output.requires_escalation
             /\ wpc = "escalation"
        ELSE /\ state.resolver_output = agents.workflow.resolver_llm.output
             /\ ~state.resolver_output.requires_escalation
             /\ wpc = "response_generation"

\* strictly increasing
Increasing(values) == \A i \in 1..(Len(values) - 1) : values[i] < values[i + 1]

\* C14: the progress values one call of process hands to the status callback
\* are strictly increasing from the first to the last, on every path, the
\* path through the except clause included.
C14_ProgressIncreasing == Processed => Increasing(frame.notified)

\* the bundle and the errors list of a state process has left
OutcomeOf(st) == [retrieval_output |-> st.retrieval_output, errors |-> st.errors]

Outcome(ag, st) == OutcomeOf(OrchestratorProcess(ag, st).state)

StatusCallbacks == {"absent", "ok", "raising"}

\* process has returned to its caller, which has not gone on yet
JustProcessed == Processed /\ wpc \in {"idle", "resolver"}

C16_NoEmptyContent ==
    Processed =>
        \A source \in Sources :
            \A i \in DOMAIN SourceResults(frame.output.retrieval_output, source) :
                SourceResults(frame.output.retrieval_output, source)[i].content # <<>>

\* the relevance scores of a sequence of sources, in order
ScoresOf(results) == [i \in DOMAIN results |-> results[i].relevance_score]

NonDecreasing(s) == \A i \in 1..(Len(s) - 1) : s[i] <= s[i + 1]
NonIncreasing(s) == \A i \in 1..(Len(s) - 1) : s[i] >= s[i + 1]

\* C23: the sequence each retriever returns is in relevance order whatever
\* order its provider answered in: local documents by non-decreasing boosted
\* distance, web results by non-increasing provider score, tweets by
\* non-increasing engagement score.
C23_RankOrdered ==
    /\ localCall.op = "retrieve" => NonDecreasing(ScoresOf(localCall.results))
    /\ webCall.op = "retrieve" => NonIncreasing(ScoresOf(webCall.results))
    /\ twitterCall.op = "retrieve" => NonIncreasing(ScoresOf(twitterCall.results))

\* the outputs the nodes before pc have left in the state, pc a node
OutputsBefore(pc) ==
    CASE pc = "preprocessing" -> {}
      [] pc = "classification" -> {"preprocessing_output"}
      [] pc = "retrieval" -> {"preprocessing_output", "classification_output"}
      [] pc = "resolver" ->
            {"preprocessing_output", "classification_output", "retrieval_output"}
      [] pc \in {"escalation", "response_generation"} ->
            {"preprocessing_output", "classification_output", "retrieval_output",
             "resolver_output"}

NodeOutputs ==
    {"preprocessing_output", "classification_output", "retrieval_output", "resolver_output",
     "final_response"}

\* the outputs state st holds
OutputsSet(st) == {key \in NodeOutputs : st[key].kind # "none"}

\* the nodes run in their order: at each node the state holds the outputs of
\* the nodes before it and no other, and the node after the resolver is
\* escalation exactly when resolver_output.requires_escalation
RunInOrder ==
    /\ wpc \in {"preprocessing", "classification", "retrieval", "resolver", "escalation",
                "response_generation"}
          => OutputsSet(state) = OutputsBefore(wpc) /\ ~state.escalation_requested
    /\ wpc \in {"escalation", "response_generation"}
          => (wpc = "escalation" <=> state.resolver_output.requires_escalation)

\* the progress values of a run through escalation, through response_generation
EscalatedProgress == <<200, 400, 600, 800, 900>>
RespondedProgress == <<200, 400, 600, 800, 1000>>

\* what process_query reports of a graph that has run to its end
RunReported ==
    /\ state.resolver_output.kind = "set"
    /\ IF state.resolver_output.requires_escalation
       THEN /\ OutputsSet(state) = OutputsBefore("escalation")
            /\ agents.workflow.progress_callback = "ok" => notified = EscalatedProgress
            /\ result.requires_escalation
            /\ result.response.kind = "No response generated"
       ELSE /\ OutputsSet(state) = NodeOutputs
            /\ agents.workflow.progress_callback = "ok" => notified = RespondedProgress
            /\ ~result.requires_escalation

\* C26 as stated: the nodes run in order preprocessing, classification,
\* retrieval, resolver, then escalation exactly when the resolver asks for
\* it and response_generation otherwise; after escalation final_response is
\* unset and process_query reports requires_escalation true with the response
\* 'No response generated', after response_generation it reports false.
C26_RoutingAlways ==
    /\ RunInOrder
    /\ wpc = "returned" => RunReported

\* C26 amended: the same of every run whose nodes do not raise; when a node
\* raises (its agent is None or the progress callback raises) no further node
\* runs, final_response is unset and process_query reports requires_escalation
\* true with its apology as the response.
C26_RoutingUnlessRaised ==
    /\ RunInOrder
    /\ wpc = "returned" =>
          IF result.response.kind = "error"
          THEN /\ result.requires_escalation
               /\ state.final_response.kind = "none"
               /\ ~state.escalation_requested
          ELSE RunReported

\* a query has gone through escalation and its result has come back
C26_Witness ==
    /\ wpc = "returned"
    /\ state.resolver_output.kind = "set"
    /\ state.resolver_output.requires_escalation
    /\ notified = EscalatedProgress
    /\ result.response.kind = "No response generated"
    /\ result.requires_escalation

(***************************************************************************)
(* ResolverAgent.process called on drawn states                            *)
(***************************************************************************)
\* the states the resolver is called on: with and without the outputs of the
\* agents before it
ResolverStates ==
    {[user_query |-> Query(q), selected_category |-> Absent,
      preprocessing_output |-> p, classification_output |-> c,
      retrieval_output |-> r, resolver_output |-> Absent, final_response |-> Absent,
      errors |-> e, escalation_requested |-> FALSE] :
        q \in FlowQueries,
        p \in {Absent, SamplePreprocessing},
        c \in {Absent, ClassificationOutput(OTHERS, <<>>, 100)},
        r \in {Absent, EmptyRetrievalOutput},
        e \in {<<>>, <<"earlier error">>}}

\* the resolver models: none, one whose call or answer raises, the answers
ResolverModels == {NoLLM, LLMRaises} \cup {Output(r) : r \in ResolverAnswers}

InitResolver ==
    /\ agents \in {[orchestrator |-> Absent,
                    workflow |-> Workflow("absent", "none", Output(SamplePreprocessing), l)] :
                      l \in ResolverModels}
    /\ state \in ResolverStates
    /\ wpc = "idle" /\ frame = NoCall /\ notified = <<>> /\ result = NoCall
    /\ IdleGraph /\ IdleCalls /\ IdleServer

\* ResolverAgent.process(state) called, and the edge should_escalate would
\* choose on what it returned
ResolverCalled ==
    /\ frame = NoCall
    /\ state' = ResolverProcess(agents.workflow.resolver_llm, state)
    /\ frame' = [op |-> "resolver", input |-> state, raised |-> FALSE,
                 route |-> ShouldEscalate(ResolverProcess(agents.workflow.resolver_llm, state))]
    /\ UNCHANGED <<agents, wpc, notified, result, graphVars, callVars, serverVars>>

NextResolver == ResolverCalled

SpecResolver == InitResolver /\ [][NextResolver]_vars

\* the resolver cannot produce a resolution of st
CannotResolve(llm, st) ==
    \/ llm.kind \in {"none", "raises"}
    \/ st.retrieval_output.kind = "none"
    \/ st.preprocessing_output.kind = "none"

\* C27: when the resolver cannot produce a resolution (no model, no retrieval
\* output, no preprocessing output, the model call or the parsing of its
\* answer raising), process does not raise, appends one error, leaves the
\* rest of the state as it was, and sets resolver_output to no resolution,
\* confidence 0 and requires_escalation true, so that the edge after it
\* leads to escalation.
C27_ResolverFallsBack ==
    (frame.op = "resolver" /\ CannotResolve(agents.workflow.resolver_llm, frame.input)) =>
        /\ ~frame.raised
        /\ Len(state.errors) = Len(frame.input.errors) + 1
        /\ Take(state.errors, Len(frame.input.errors)) = frame.input.errors
        /\ state.resolver_output.kind = "set"
        /\ state.resolver_output.resolutions = <<>>
        /\ state.resolver_output.overall_confidence = 0
        /\ state.resolver_output.requires_escalation
        /\ frame.route = "escalate"
        /\ \A key \in DOMAIN state \ {"errors", "resolver_output"} :
              state[key] = frame.input[key]

\* the resolver was called with a model that answers confidently on a state
\* without retrieval output, after an earlier error
C27_Witness ==
    /\ frame.op = "resolver"
    /\ agents.workflow.resolver_llm.kind = "output"
    /\ ~agents.workflow.resolver_llm.output.requires_escalation
    /\ frame.input.retrieval_output.kind = "none"
    /\ frame.input.preprocessing_output.kind = "set"
    /\ Len(state.errors) = 2
    /\ frame.route = "escalate"

(***************************************************************************)
(* ClassificationAgent.process called on drawn selections                  *)
(***************************************************************************)
\* the selections tried: none, the empty string, each allowed value as it is,
\* an allowed value in another spelling, white space, and values not allowed
Selections ==
    {Absent, [kind |-> "set", text |-> <<>>]}
    \cup {[kind |-> "set", text |-> category] : category \in AllowedCategories}
    \cup {[kind |-> "set", text |-> text] :
             text \in {<<" ", "r", "e", "f", "u", "n", "d", "-", "E", "X", "P", "O", "R", "T", "S">>,
                       <<"r", "e", "t", "u", "r", "n", "s", "_", "g", "s", "t", "r", "7">>,
                       <<" ">>, <<"G", "S", "T", " ", "P", "o", "r", "t", "a", "l">>,
                       <<"R", "e", "f", "u", "n", "d">>}}

ClassifierStates ==
    {[user_query |-> Query(q), selected_category |-> selected,
      preprocessing_output |-> p, classification_output |-> Absent,
      retrieval_output |-> Absent, resolver_output |-> Absent, final_response |-> Absent,
      errors |-> e, escalation_requested |-> FALSE] :
        q \in FlowQueries, selected \in Selections,
        p \in {Absent, SamplePreprocessing}, e \in {<<>>, <<"earlier error">>}}

\* ClassificationAgent(llm): the dict its constructor built
Classifier(normalized_lookup) == [normalized_lookup |-> normalized_lookup]

InitClassifier ==
    /\ agents \in {Classifier(normalized_lookup) : normalized_lookup \in NormalizedLookups}
    /\ state \in ClassifierStates
    /\ wpc = "idle" /\ frame = NoCall /\ notified = <<>> /\ result = NoCall
    /\ IdleGraph /\ IdleCalls /\ IdleServer

\* ClassificationAgent.process(state) called
ClassifierCalled ==
    /\ frame = NoCall
    /\ state' = ClassificationProcess(agents.normalized_lookup, state)
    /\ frame' = [op |-> "classification", input |-> state, raised |-> FALSE]
    /\ UNCHANGED <<agents, wpc, notified, result, graphVars, callVars, serverVars>>

NextClassifier == ClassifierCalled

SpecClassifier == InitClassifier /\ [][NextClassifier]_vars

\* the selection of st is an allowed category as it is written
SelectedAllowed(st) ==
    /\ st.selected_category.kind = "set"
    /\ st.selected_category.text \in AllowedCategories

\* the selection of st is missing or has the normalised form of no allowed
\* category
SelectedUnknown(st) ==
    \/ st.selected_category.kind = "none"
    \/ st.selected_category.text = <<>>
    \/ \A category \in AllowedCategories :
          Normalize(category) # Normalize(st.selected_category.text)

\* C29: process resolves a selection that is an allowed category as it is
\* written to that category with confidence 100, no two allowed categories
\* being one after normalisation, and a selection that is missing or matches
\* no allowed category to 'Others'.
C29_AllowedKept ==
    frame.op = "classification" =>
        /\ SelectedAllowed(frame.input) =>
              /\ state.classification_output.primary_category
                    = frame.input.selected_category.text
              /\ state.classification_output.confidence = 100
        /\ SelectedUnknown(frame.input) =>
              state.classification_output.primary_category = OTHERS

(***************************************************************************)
(* backend_server: sessions, background tasks, progress and WebSocket       *)
(* queues. Each action is one stretch of a coroutine between two awaits,    *)
(* or one step of a worker thread. The handlers that only read, and         *)
(* clear_history and the closing of a WebSocket, are left out.              *)
(***************************************************************************)
MaxSessions == 2

\* the ids uuid4 gives, in the order of the submissions
SessionIds == <<"s1", "s2", "s3">>

ServerQueries == {"how to file GSTR-3B", "refund pending"}
ServerCategories == {"Refunds"}

\* d[k] = v
Put(d, k, v) == [x \in DOMAIN d \cup {k} |-> IF x = k THEN v ELSE d[x]]

\* d.pop(k, None)
Pop(d, k) == [x \in DOMAIN d \ {k} |-> d[x]]

\* d.get(k, default)
Get(d, k, default) == IF k \in DOMAIN d THEN d[k] ELSE default

\* the number of progress updates of one run of the workflow
NumNodes == 5

\* what the wrapper of the k-th node of a run hands to _update_progress
NodeUpdate(k, escalate) ==
    CASE k = 1 -> [agent_name |-> "Agent 1: Preprocessing", progress |-> 200]
      [] k = 2 -> [agent_name |-> "Agent 2: Classification", progress |-> 400]
      [] k = 3 -> [agent_name |-> "Agent 3: Multi-Source Retrieval", progress |-> 600]
      [] k = 4 -> [agent_name |-> "Agent 4: Resolution", progress |-> 800]
      [] k = 5 /\ escalate -> [agent_name |-> "Agent 6: Escalation", progress |-> 900]
      [] k = 5 /\ ~escalate -> [agent_name |-> "Agent 5: Response Generation", progress |-> 1000]

\* the server after startup_event: the resolver is built, nothing else is there
InitServer ==
    /\ resolver_callback = None /\ active_sessions = EmptyDict /\ agent_progress = EmptyDict
    /\ pending_websocket_messages = EmptyDict /\ websocket_connections = {}
    /\ tasks = EmptyDict /\ websocket_sent = EmptyDict /\ queues = <<>>
    /\ IdleGraph /\ IdleCalls /\ IdleFlow

\* enqueue_websocket_message, then flush_websocket_messages: the queues after
Enqueued(session_id, message) ==
    IF session_id \in websocket_connections
    THEN Pop(pending_websocket_messages, session_id)
    ELSE Put(pending_websocket_messages, session_id,
             Get(pending_websocket_messages, session_id, {}) \cup {message})

Types(messages) == {m.type : m \in messages}

\* ... and what the sockets have been sent after
SentAfter(session_id, message) ==
    IF session_id \in websocket_connections
    THEN Put(websocket_sent, session_id,
             Get(websocket_sent, session_id, {})
               \cup Types(Get(pending_websocket_messages, session_id, {}) \cup {message}))
    ELSE websocket_sent

EnqueueWebsocketMessage(session_id, message) ==
    /\ pending_websocket_messages' = Enqueued(session_id, message)
    /\ websocket_sent' = SentAfter(session_id, message)

\* submit_query: the session is stored and its background task created
SubmitQuery(query, category) ==
    /\ resolver_callback' = resolver_callback
    /\ Cardinality(DOMAIN tasks) < MaxSessions
    /\ active_sessions' =
          Put(active_sessions, SessionIds[Cardinality(DOMAIN tasks) + 1],
              [query |-> query, category |-> category, status |-> "processing",
               result |-> Absent, cancelled_at |-> FALSE])
    /\ tasks' = Put(tasks, SessionIds[Cardinality(DOMAIN tasks) + 1],
                    [pc |-> "sleep", query |-> query, nodes |-> 0, result |-> Absent])
    /\ UNCHANGED <<agent_progress, pending_websocket_messages, websocket_connections,
                   websocket_sent, queues, graphVars, callVars, flowVars>>

\* process_query_background after its sleep: the callback of this session is
\* set on the resolver and process_query starts in a worker thread
TaskStarts(session_id) ==
    /\ session_id \in DOMAIN tasks /\ tasks[session_id].pc = "sleep"
    /\ resolver_callback' = session_id
    /\ tasks' = [tasks EXCEPT ![session_id].pc = "running"]
    /\ UNCHANGED <<active_sessions, agent_progress, pending_websocket_messages,
                   websocket_connections, websocket_sent,
                   queues, graphVars, callVars, flowVars>>

\* agent_progress after progress_callback(session_id, ...); produced_by is the
\* session whose worker made the call (kept for the properties, not in the dict)
ProgressRecorded(session_id, update, produced_by) ==
    Put(agent_progress, session_id,
        [current_agent |-> update.agent_name, progress |-> update.progress,
         agents_completed |->
            IF /\ update.progress >= 1000
               /\ \A i \in DOMAIN Get(agent_progress, session_id,
                                      [agents_completed |-> <<>>]).agents_completed :
                     Get(agent_progress, session_id,
                         [agents_completed |-> <<>>]).agents_completed[i] # update.agent_name
            THEN Append(Get(agent_progress, session_id,
                            [agents_completed |-> <<>>]).agents_completed, update.agent_name)
            ELSE Get(agent_progress, session_id, [agents_completed |-> <<>>]).agents_completed,
         produced_by |-> produced_by])

AgentStatus(session_id, update, produced_by) ==
    [type |-> "agent_status", session_id |-> session_id, agent_name |-> update.agent_name,
     progress |-> update.progress, produced_by |-> produced_by]

\* the worker thread of a session runs the wrapper of its next node:
\* _update_progress calls the callback the resolver holds now, which records
\* the update and hands enqueue_websocket_message to the event loop; the loop
\* runs it before anything else happens
WorkerNode(session_id, escalate) ==
    /\ session_id \in DOMAIN tasks /\ tasks[session_id].pc = "running"
    /\ tasks[session_id].nodes < NumNodes
    /\ (escalate => tasks[session_id].nodes = NumNodes - 1)
    /\ tasks' = [tasks EXCEPT ![session_id].nodes = @ + 1]
    /\ IF resolver_callback = None
       THEN UNCHANGED <<agent_progress, pending_websocket_messages, websocket_sent>>
       ELSE /\ agent_progress' =
                  ProgressRecorded(resolver_callback,
                                   NodeUpdate(tasks[session_id].nodes + 1, escalate),
                                   session_id)
            /\ EnqueueWebsocketMessage(
                  resolver_callback,
                  AgentStatus(resolver_callback,
                              NodeUpdate(tasks[session_id].nodes + 1, escalate), session_id))
    /\ UNCHANGED <<resolver_callback, active_sessions, websocket_connections,
                   queues, graphVars, callVars, flowVars>>

\* the dict process_query returns
QueryResult(session_id, query, failed) ==
    [kind |-> "result", session_id |-> session_id, query |-> query, failed |-> failed]

\* process_query returns in the worker thread: after the last node, or with
\* the failure dict when app.invoke raised
WorkerReturns(session_id, failed) ==
    /\ session_id \in DOMAIN tasks /\ tasks[session_id].pc = "running"
    /\ IF failed THEN tasks[session_id].nodes >= 1 ELSE tasks[session_id].nodes = NumNodes
    /\ tasks' = [tasks EXCEPT ![session_id].pc = "returned",
                              ![session_id].result =
                                  QueryResult(session_id, tasks[session_id].query, failed)]
    /\ UNCHANGED <<resolver_callback, active_sessions, agent_progress,
                   pending_websocket_messages, websocket_connections,
                   websocket_sent, queues, graphVars, callVars, flowVars>>

\* process_query_background after asyncio.to_thread: the result is stored
\* and the query_result message queued
TaskStoresResult(session_id) ==
    /\ session_id \in DOMAIN tasks /\ tasks[session_id].pc = "returned"
    /\ active_sessions' =
          IF session_id \in DOMAIN active_sessions
          THEN [active_sessions EXCEPT ![session_id].status = "completed",
                                       ![session_id].result = tasks[session_id].result]
          ELSE active_sessions
    /\ EnqueueWebsocketMessage(session_id,
                               [type |-> "query_result", session_id |-> session_id,
                                result |-> tasks[session_id].result])
    /\ tasks' = [tasks EXCEPT ![session_id].pc = "done"]
    /\ UNCHANGED <<resolver_callback, agent_progress, websocket_connections,
                   queues, graphVars, callVars, flowVars>>

\* cancel_query on a session that is processing
CancelQuery(session_id) ==
    /\ session_id \in DOMAIN active_sessions
    /\ active_sessions[session_id].status = "processing"
    /\ active_sessions' = [active_sessions EXCEPT ![session_id].status = "cancelled",
                                                  ![session_id].cancelled_at = TRUE]
    /\ EnqueueWebsocketMessage(session_id,
                               [type |-> "error", session_id |-> session_id,
                                error |-> "Query was cancelled by user"])
    /\ UNCHANGED <<resolver_callback, agent_progress, websocket_connections, tasks,
                   queues, graphVars, callVars, flowVars>>

\* websocket_endpoint up to its receive loop: the connection is stored, the
\* connection message sent and the queue of the session flushed
WebsocketConnect(session_id) ==
    /\ session_id \in DOMAIN tasks /\ session_id \notin websocket_connections
    /\ websocket_connections' = websocket_connections \cup {session_id}
    /\ websocket_sent' =
          Put(websocket_sent, session_id,
              Get(websocket_sent, session_id, {}) \cup {"connection"}
                \cup Types(Get(pending_websocket_messages, session_id, {})))
    /\ pending_websocket_messages' = Pop(pending_websocket_messages, session_id)
    /\ UNCHANGED <<resolver_callback, active_sessions, agent_progress, tasks,
                   queues, graphVars, callVars, flowVars>>

Sessions == {SessionIds[i] : i \in 1..MaxSessions}

NextServer ==
    \/ \E query \in ServerQueries, category \in ServerCategories : SubmitQuery(query, category)
    \/ \E session_id \in Sessions : TaskStarts(session_id)
    \/ \E session_id \in Sessions, escalate \in BOOLEAN : WorkerNode(session_id, escalate)
    \/ \E session_id \in Sessions, failed \in BOOLEAN : WorkerReturns(session_id, failed)
    \/ \E session_id \in Sessions : TaskStoresResult(session_id)
    \/ \E session_id \in Sessions : CancelQuery(session_id)
    \/ \E session_id \in Sessions : WebsocketConnect(session_id)

SpecServer == InitServer /\ [][NextServer]_vars

\* the types of the messages queued for a session or sent to it
MessageTypes(session_id) ==
    Types(Get(pending_websocket_messages, session_id, {}))
      \cup Get(websocket_sent, session_id, {})

\* C17: a session cancel_query has cancelled holds no result and is not
\* 'completed', and no query_result message is queued for it or sent to it,
\* however the cancellation and the background task interleave.
C17_CancelledStaysCancelled ==
    \A session_id \in DOMAIN active_sessions :
        active_sessions[session_id].cancelled_at =>
            /\ active_sessions[session_id].status # "completed"
            /\ active_sessions[session_id].result = Absent
            /\ "query_result" \notin MessageTypes(session_id)

\* C18: every progress update recorded in agent_progress, or queued for the
\* WebSocket, under a session id was produced by the worker of that session.
C18_NoProgressLeak ==
    /\ \A session_id \in DOMAIN agent_progress :
          agent_progress[session_id].produced_by = session_id
    /\ \A session_id \in DOMAIN pending_websocket_messages :
          \A m \in pending_websocket_messages[session_id] :
              m.type = "agent_status" => m.produced_by = session_id

\* get_query_result(session_id): the HTTP status and the status of its answer
GetQueryResult(session_id) ==
    IF session_id \notin DOMAIN active_sessions
    THEN [status_code |-> 404, status |-> None]
    ELSE IF active_sessions[session_id].status = "processing"
    THEN [status_code |-> 200, status |-> "processing"]
    ELSE IF active_sessions[session_id].status = "error"
    THEN [status_code |-> 200, status |-> "error"]
    ELSE IF active_sessions[session_id].status = "completed"
            /\ active_sessions[session_id].result # Absent
    THEN [status_code |-> 200, status |-> "completed"]
    ELSE [status_code |-> 500, status |-> None]

\* C28: for every session of active_sessions, whatever submit_query, the
\* background task and cancel_query have made of its status, get_query_result
\* answers processing, completed or error and never with the 500 of an
\* unexpected session state.
C28_ResultNeverUnexpected ==
    \A session_id \in DOMAIN active_sessions :
        /\ GetQueryResult(session_id).status_code = 200
        /\ GetQueryResult(session_id).status \in {"processing", "completed", "error"}

(***************************************************************************)
(* backend_server: the coroutines of enqueue_websocket_message and          *)
(* flush_websocket_messages on the queue of one session. Here               *)
(* pending_websocket_messages maps the session to its list object (an index *)
(* of queues), tasks holds the coroutines, and websocket_sent is the        *)
(* sequence of messages the WebSocket was sent. An action is the stretch of *)
(* a coroutine up to its next await; the only await of the loop is the one  *)
(* of websocket.send_text, which hands the message to the socket and gives  *)
(* the event loop the chance to run another coroutine before queue.pop(0).  *)
(***************************************************************************)
MaxCoroutines == 3      \* calls of enqueue_websocket_message

FlushSession == "s1"

\* the coroutine of websocket_endpoint; those of enqueue_websocket_message
\* are numbered from 1 in the order they run
Endpoint == 0

\* the n-th message enqueued; connected: the session had its WebSocket then
StatusMessage(n, connected) == [type |-> "agent_status", n |-> n, connected |-> connected]

ConnectionMessage == [type |-> "connection", n |-> 0, connected |-> TRUE]

\* a coroutine that has returned; message: the one it enqueued
CoroutineReturned(message) == [pc |-> "returned", queue |-> 0, message |-> message]

InitFlush ==
    /\ websocket_connections = {}
    /\ pending_websocket_messages = EmptyDict
    /\ queues = <<>>
    /\ tasks = EmptyDict
    /\ websocket_sent = <<>>
    /\ resolver_callback = None /\ active_sessions = EmptyDict /\ agent_progress = EmptyDict
    /\ IdleGraph /\ IdleCalls /\ IdleFlow

\* flush_websocket_messages of coroutine c from the test of its while loop,
\* its list being queues_now[queue]: the head is handed to send_text and the
\* coroutine waits, or the loop is over and an empty list takes the
\* session's entry out of the dict
FlushFrom(c, message, queue, queues_now, pending_now) ==
    /\ queues' = queues_now
    /\ IF queues_now[queue] # <<>>
       THEN /\ websocket_sent' = Append(websocket_sent, queues_now[queue][1])
            /\ tasks' = Put(tasks, c, [pc |-> "send_text", queue |-> queue, message |-> message])
            /\ pending_websocket_messages' = pending_now
       ELSE /\ websocket_sent' = websocket_sent
            /\ tasks' = Put(tasks, c, CoroutineReturned(message))
            /\ pending_websocket_messages' = Pop(pending_now, FlushSession)

\* enqueue_websocket_message(session_id, message) up to its first await:
\* get_pending_queue, queue.append, and flush_websocket_messages up to
\* send_text (or to its return when the session has no WebSocket)
EnqueueMessage ==
    /\ Cardinality(DOMAIN tasks \ {Endpoint}) < MaxCoroutines
    /\ LET c == Cardinality(DOMAIN tasks \ {Endpoint}) + 1
           message == StatusMessage(c, FlushSession \in websocket_connections)
           queue == IF FlushSession \in DOMAIN pending_websocket_messages
                    THEN pending_websocket_messages[FlushSession]
                    ELSE Len(queues) + 1
           queues_now == IF FlushSession \in DOMAIN pending_websocket_messages
                         THEN [queues EXCEPT ![queue] = Append(@, message)]
                         ELSE Append(queues, <<message>>)
           pending_now == Put(pending_websocket_messages, FlushSession, queue)
       IN IF FlushSession \in websocket_connections
          THEN FlushFrom(c, message, queue, queues_now, pending_now)
          ELSE /\ queues' = queues_now
               /\ pending_websocket_messages' = pending_now
               /\ tasks' = Put(tasks, c, CoroutineReturned(message))
               /\ websocket_sent' = websocket_sent
    /\ UNCHANGED <<resolver_callback, active_sessions, agent_progress, websocket_connections,
                   graphVars, callVars, flowVars>>

\* a coroutine of flush_websocket_messages after its await of send_text:
\* queue.pop(0), whose IndexError on a list emptied meanwhile leaves the loop,
\* then the loop again
SendTextReturns(c) ==
    /\ c \in DOMAIN tasks /\ tasks[c].pc = "send_text"
    /\ IF queues[tasks[c].queue] = <<>>
       THEN /\ tasks' = Put(tasks, c, CoroutineReturned(tasks[c].message))
            /\ pending_websocket_messages' = Pop(pending_websocket_messages, FlushSession)
            /\ UNCHANGED <<queues, websocket_sent>>
       ELSE FlushFrom(c, tasks[c].message, tasks[c].queue,
                      [queues EXCEPT ![tasks[c].queue] = Tail(@)],
                      pending_websocket_messages)
    /\ UNCHANGED <<resolver_callback, active_sessions, agent_progress, websocket_connections,
                   graphVars, callVars, flowVars>>

\* websocket_endpoint up to the await of its first send_text: the connection
\* is stored and the connection message handed to the socket
EndpointConnects ==
    /\ FlushSession \notin websocket_connections
    /\ websocket_connections' = websocket_connections \cup {FlushSession}
    /\ websocket_sent' = Append(websocket_sent, ConnectionMessage)
    /\ tasks' = Put(tasks, Endpoint, [pc |-> "connection", queue |-> 0, message |-> ConnectionMessage])
    /\ UNCHANGED <<resolver_callback, active_sessions, agent_progress,
                   pending_websocket_messages, queues, graphVars, callVars, flowVars>>

\* websocket_endpoint after that await: flush_websocket_messages(session_id),
\* whose pending_websocket_messages.get gives a new empty list when the
\* session has no entry
EndpointFlushes ==
    /\ Endpoint \in DOMAIN tasks /\ tasks[Endpoint].pc = "connection"
    /\ IF FlushSession \in DOMAIN pending_websocket_messages
       THEN FlushFrom(Endpoint, ConnectionMessage, pending_websocket_messages[FlushSession],
                      queues,
                      pending_websocket_messages)
       ELSE /\ tasks' = Put(tasks, Endpoint, CoroutineReturned(ConnectionMessage))
            /\ UNCHANGED <<pending_websocket_messages, queues, websocket_sent>>
    /\ UNCHANGED <<resolver_callback, active_sessions, agent_progress, websocket_connections,
                   graphVars, callVars, flowVars>>

NextFlush ==
    \/ EnqueueMessage
    \/ \E c \in 0..MaxCoroutines : SendTextReturns(c)
    \/ EndpointConnects
    \/ EndpointFlushes

SpecFlush == InitFlush /\ [][NextFlush]_vars

\* the messages enqueued so far while the session had its WebSocket
EnqueuedConnected ==
    {tasks[c].message : c \in {d \in DOMAIN tasks \ {Endpoint} : tasks[d].message.connected}}

\* every coroutine has returned
Quiescent == \A c \in DOMAIN tasks : tasks[c].pc = "returned"

\* the places of s that hold m
Places(s, m) == {i \in DOMAIN s : s[i] = m}

\* C25: of the messages enqueued while the session has its WebSocket, none
\* is sent twice, they are sent in the order they were enqueued, none
\* leaves the queues without having been sent, and once every coroutine has
\* returned each of them has been sent.
C25_SentOnceInOrder ==
    /\ \A m \in EnqueuedConnected :
          /\ Cardinality(Places(websocket_sent, m)) <= 1
          /\ \/ m \in Range(websocket_sent)
             \/ \E q \in DOMAIN queues : m \in Range(queues[q])
          /\ Quiescent => m \in Range(websocket_sent)
    /\ \A i, j \in DOMAIN websocket_sent :
          (i < j /\ websocket_sent[i] \in EnqueuedConnected
                 /\ websocket_sent[j] \in EnqueuedConnected)
              => websocket_sent[i].n <= websocket_sent[j].n

(***************************************************************************)
(* process with providers that may never answer                             *)
(***************************************************************************)
\* a provider that never answers the call made to it
Silent == [kind |-> "silent"]

\* the orchestrators whose providers each answer or stay silent
SilentOrchestrators ==
    {[status_callback |-> c,
      twitter |-> [client |-> TRUE, feed |-> f],
      local |-> [answer |-> a, gr |-> Graph(SampleGraph)],
      web |-> [agent |-> [client |-> TRUE, provider |-> "tavily", llm |-> NoLLM,
                          unrestricted |-> WEB_SEARCH_UNRESTRICTED],
               search |-> w],
      llm |-> m] :
        c \in {"absent", "ok", "raising"},
        f \in {Silent, FeedEmpty}, a \in {Silent, StoreUnavailable, StoreDocs(<<>>)},
        w \in {Silent, SearchHits(<<>>)}, m \in {Silent, NoLLM, LLMText(<<"o", "k">>)}}

InitPending ==
    /\ agents \in {[orchestrator |-> o, workflow |-> Absent] : o \in SilentOrchestrators}
    /\ state = NoCall /\ wpc = "idle" /\ frame = NoCall /\ notified = <<>> /\ result = NoCall
    /\ IdleGraph /\ IdleCalls /\ IdleServer

\* a provider that raises at once in the place of one that stays silent
Answering(provider) == IF provider.kind = "silent" THEN [kind |-> "raises"] ELSE provider

\* the orchestrator as it runs up to the first call that is not answered
UntilSilence(ag) ==
    [ag EXCEPT !.twitter.feed = Answering(@), !.local.answer = Answering(@),
               !.web.search = Answering(@), !.llm = Answering(@)]

\* the retriever of the source makes its external call on this state, and
\* the provider behind it is silent
CallUnanswered(ag, st, source, calls) ==
    /\ calls[source].ran
    /\ CASE source = "twitter" -> ag.twitter.client /\ ag.twitter.feed.kind = "silent"
         [] source = "local" -> ag.local.answer.kind = "silent"
         [] source = "web" -> ag.web.agent.client /\ ag.web.search.kind = "silent"
         [] source = "llm" -> /\ ag.llm.kind = "silent"
                              /\ st.preprocessing_output.core_issues # <<>>

\* the step of the try block at which process waits for ever, 0 if none
WaitsAt(ag, st, calls) ==
    IF \A k \in DOMAIN ProcessSteps :
          ProcessSteps[k].do = "notify" \/ ~CallUnanswered(ag, st, ProcessSteps[k].do, calls)
    THEN 0
    ELSE Least({k \in DOMAIN ProcessSteps :
                   /\ ProcessSteps[k].do # "notify"
                   /\ CallUnanswered(ag, st, ProcessSteps[k].do, calls)})

\* the record kept of a call of process that waits on a provider: the call
\* it waits on and the timeout given to that call (None: without limit)
Waiting(st, k, already) ==
    [op |-> "waiting", input |-> st, source |-> ProcessSteps[k].do, timeout |-> None,
     notified |-> already]

\* process is called and runs until it returns or waits on a call that is
\* not answered; no call is given a timeout, so nothing ends the wait
PendingProcess(st, until) ==
    /\ frame = NoCall
    /\ IF WaitsAt(agents.orchestrator, st, until.calls) = 0
       THEN ProcessDone(st, until)
       ELSE /\ frame' = Waiting(st, WaitsAt(agents.orchestrator, st, until.calls),
                                NotifyStatus(agents.orchestrator.status_callback, 620).delivered
                                  \o StepsNotified(agents.orchestrator.status_callback,
                                                   WaitsAt(agents.orchestrator, st,
                                                           until.calls)))
            /\ notified' = frame'.notified
            /\ state' = st
    /\ UNCHANGED <<agents, wpc, result, graphVars, callVars, serverVars>>

NextPending ==
    \E st \in DirectStates :
        PendingProcess(st, OrchestratorProcess(UntilSilence(agents.orchestrator), st))

SpecPending == InitPending /\ [][NextPending]_vars /\ WF_vars(NextPending)

\* C19: a call of process comes to its end with a bundle stored, also when a
\* provider never answers.
C19_ReturnsDespiteSilence == <>(Processed /\ BundlePresent(frame.output))

====
